---- MODULE Spec2Model ----
(***************************************************************************)
(* The usage ledger of app.py: three SQLite tables (usage_daily,           *)
(* user_credits, stripe_sessions), the functions that read and write them, *)
(* the Stripe success callback verify_and_grant_from_session, and the      *)
(* script runs of the page: the callback, the pay button, the buttons of   *)
(* the card flow, and the generate-reading and upgrade-to-deep steps,      *)
(* which charge the ledger around the model call.                          *)
(*                                                                         *)
(* Every request runs in its own thread with its own connection (db_conn   *)
(* opens one per call).  SQLite runs each write statement inside a         *)
(* transaction that holds the single database write lock from the          *)
(* statement's execute() to conn.commit(); readers see the last committed  *)
(* image (WAL).  A SELECT whose only row has been fetched holds nothing.   *)
(***************************************************************************)
EXTENDS Integers, FiniteSets, Sequences, TLC

\* ------------------------------------------------------------------ bounds
MaxDay == 2        \* calendar days 1..MaxDay
MaxUsed == 3       \* cap on the free uses (readings, additions) started
MaxN == 2          \* amounts n passed to inc_free_used / add / consume
MaxCredits == 3    \* cap on the credits whose grant may be started
MaxClock == 1      \* utcnow() takes the values 0..MaxClock
MaxCrashes == 1    \* crashes counted in the fair specification

\* --------------------------------------------------------------- constants
FREE_PER_DAY == 1

Procs == {"p1", "p2"}             \* concurrent request threads
Uids == {"u1", "u2"}              \* identities (the uid query parameter)
Sessions == {"s1", "s2"}          \* Stripe checkout session ids
Days == 1..MaxDay
Amounts == 1..MaxN

NoProc == "none"
NoUid == "none"
NoSid == ""

VARIABLES
    db,          \* committed database image: the three tables
    txn,         \* the open write transaction: NoTxn or [owner, image]
    stripe,      \* Stripe's checkout sessions: [Sessions -> record]
    today,       \* datetime.date.today()
    clock,       \* datetime.datetime.utcnow()
    qp,          \* per tab: session_id of st.query_params when success=1
    pc,          \* per request thread: position in the function it runs
    call,        \* per request thread: the call's arguments, locals, result
    incSum,      \* history: sum of n of the committed inc_free_used calls
    granted,     \* history: credits added by committed add_deep_credits
    consumed,    \* history: credits taken by consume calls that return True
    sessGrants,  \* history: add_deep_credits commits made for a session id
    freeReadings,\* history: free readings ai_free has returned, per uid and day
    crashes,     \* history: number of crashes so far
    session      \* per tab (the thread that runs its script): st.session_state

vars == <<db, txn, stripe, today, clock, qp, pc, call,
          incSum, granted, consumed, sessGrants, freeReadings, crashes, session>>

histVars == <<incSum, granted, consumed, sessGrants, freeReadings>>
envVars == <<stripe, today, clock, qp>>

\* ------------------------------------------------------------------ tables
\* db_init: CREATE TABLE IF NOT EXISTS ... : three empty tables.
db_init ==
    [usage_daily |-> {}, user_credits |-> {}, stripe_sessions |-> {}]

NoTxn == [owner |-> NoProc, image |-> db_init]

today_key == today

\* SELECT used FROM usage_daily WHERE uid=? AND day=?  (the matching rows)
UsageRows(rows, u, d) == {r \in rows : r.uid = u /\ r.day = d}

\* SELECT deep_credits FROM user_credits WHERE uid=?
CreditRows(rows, u) == {r \in rows : r.uid = u}

\* SELECT 1 FROM stripe_sessions WHERE session_id=?
SessionRows(rows, s) == {r \in rows : r.session_id = s}

\* Mutant of FreeUsedOn: the SELECT without "AND day=?".
FreeUsedAnyDay(rows, u, d) ==
    IF {r \in rows : r.uid = u} = {} THEN 0
    ELSE (CHOOSE r \in {x \in rows : x.uid = u} : TRUE).used

\* int(row[0]) if row else 0, for the usage_daily SELECT of get_free_used
FreeUsedOn(rows, u, d) ==
    IF UsageRows(rows, u, d) = {} THEN 0
    ELSE (CHOOSE r \in UsageRows(rows, u, d) : TRUE).used

\* int(row[0]) if row else 0, for the user_credits SELECT
DeepCreditsOf(rows, u) ==
    IF CreditRows(rows, u) = {} THEN 0
    ELSE (CHOOSE r \in CreditRows(rows, u) : TRUE).deep_credits

\* Mutant of UpsertUsage: INSERT OR REPLACE, the count is overwritten.
UpsertUsageOverwrite(rows, u, d, n) ==
    (rows \ UsageRows(rows, u, d)) \cup {[uid |-> u, day |-> d, used |-> n]}

\* Mutant of UpsertUsage: "used = used - ?" on a conflict.
UpsertUsageSubtract(rows, u, d, n) ==
    IF UsageRows(rows, u, d) = {}
    THEN rows \cup {[uid |-> u, day |-> d, used |-> n]}
    ELSE {IF r.uid = u /\ r.day = d THEN [r EXCEPT !.used = @ - n] ELSE r
          : r \in rows}

\* Mutant of UpsertUsage: the conflict target is the uid alone, so the count
\* is added to the row the identity has, whatever its day.
UpsertUsageAnyDay(rows, u, d, n) ==
    IF {r \in rows : r.uid = u} = {}
    THEN rows \cup {[uid |-> u, day |-> d, used |-> n]}
    ELSE {IF r.uid = u THEN [r EXCEPT !.used = @ + n] ELSE r : r \in rows}

\* INSERT INTO usage_daily(uid, day, used) VALUES(?,?,?)
\* ON CONFLICT(uid, day) DO UPDATE SET used = used + ?
UpsertUsage(rows, u, d, n) ==
    IF UsageRows(rows, u, d) = {}
    THEN rows \cup {[uid |-> u, day |-> d, used |-> n]}
    ELSE {IF r.uid = u /\ r.day = d THEN [r EXCEPT !.used = @ + n] ELSE r
          : r \in rows}

\* Mutant of UpsertCredits: INSERT OR REPLACE, the balance is overwritten.
UpsertCreditsOverwrite(rows, u, n, now) ==
    (rows \ CreditRows(rows, u))
       \cup {[uid |-> u, deep_credits |-> n, updated_at |-> now]}

\* INSERT INTO user_credits(uid, deep_credits, updated_at) VALUES(?,?,?)
\* ON CONFLICT(uid) DO UPDATE SET deep_credits = deep_credits + ?, updated_at=?
UpsertCredits(rows, u, n, now) ==
    IF CreditRows(rows, u) = {}
    THEN rows \cup {[uid |-> u, deep_credits |-> n, updated_at |-> now]}
    ELSE {IF r.uid = u
          THEN [r EXCEPT !.deep_credits = @ + n, !.updated_at = now]
          ELSE r : r \in rows}

\* Mutant of UpdateCredits: the UPDATE without "WHERE uid=?".
UpdateCreditsNoWhere(rows, u, n, now) ==
    {[r EXCEPT !.deep_credits = @ - n, !.updated_at = now] : r \in rows}

\* UPDATE user_credits SET deep_credits = deep_credits - ?, updated_at=?
\* WHERE uid=?
UpdateCredits(rows, u, n, now) ==
    {IF r.uid = u
     THEN [r EXCEPT !.deep_credits = @ - n, !.updated_at = now]
     ELSE r : r \in rows}

\* Mutant of InsertOrIgnoreSession: INSERT OR REPLACE, the later call's uid
\* and time replace the stored ones.
InsertOrReplaceSession(rows, s, u, now) ==
    (rows \ SessionRows(rows, s))
       \cup {[session_id |-> s, uid |-> u, processed_at |-> now]}

\* INSERT OR IGNORE INTO stripe_sessions(session_id, uid, processed_at)
InsertOrIgnoreSession(rows, s, u, now) ==
    IF SessionRows(rows, s) = {}
    THEN rows \cup {[session_id |-> s, uid |-> u, processed_at |-> now]}
    ELSE rows

\* Mutant of stripe_session_already_processed: the lookup finds nothing.
AlreadyProcessedNever(s) == FALSE

\* bool(row) of stripe_session_already_processed's SELECT
stripe_session_already_processed(s) == SessionRows(db.stripe_sessions, s) # {}

get_free_used(u) == FreeUsedOn(db.usage_daily, u, today_key)

\* Mutant of can_use_free: "<=" in place of "<".
can_use_free_leq(u) == get_free_used(u) <= FREE_PER_DAY

\* return get_free_used(uid) < FREE_PER_DAY
can_use_free(u) == get_free_used(u) < FREE_PER_DAY

get_deep_credits(u) == DeepCreditsOf(db.user_credits, u)

\* ------------------------------------------------------------ call records
NoCall == [op |-> "none", uid |-> NoUid, n |-> 0, sid |-> NoSid,
           day |-> 0, now |-> 0, ret |-> "none", msg |-> "none", val |-> 0,
           want_deep |-> FALSE, generated |-> FALSE, charged |-> FALSE]

NewCall(op, u, n, s) ==
    [NoCall EXCEPT !.op = op, !.uid = u, !.n = n, !.sid = s]

Idle(p) == pc[p] = "idle"

\* What stays of a call once it has returned: which function it was and
\* what it returned (ret, and msg or val); its locals are gone.
Returned(c, ret, msg, val) ==
    [NoCall EXCEPT !.op = c.op, !.ret = ret, !.msg = msg, !.val = val]

\* cur.execute of a write statement: BEGIN, then the statement takes the
\* database write lock; it waits while another connection holds it.  The
\* statement's arguments (today_key(), now) were evaluated before the wait:
\* the actions that read them come first and keep them in the call record.
Execute(p, image) ==
    /\ txn.owner = NoProc
    /\ txn' = [owner |-> p, image |-> image]
    /\ UNCHANGED db

\* conn.commit(): the transaction's image becomes the committed database.
Commit(p) ==
    /\ txn.owner = p
    /\ db' = txn.image
    /\ txn' = NoTxn

\* init_state: the defaults of st.session_state.  drawn_cards is modelled by
\* the number of cards drawn (0 or 3), reading by its kind: "None", "data"
\* (a parsed JSON object), "other" (parsed JSON that the page cannot show),
\* "raw" (unparsed text) or "error" (the failure text).
init_state ==
    [stage |-> "ask", drawn_cards |-> 0, reveal_index |-> -1,
     reading |-> "None", reading_is_deep |-> FALSE]

Init ==
    /\ db = db_init
    /\ txn = NoTxn
    /\ stripe = [s \in Sessions |-> [owner |-> NoUid, status |-> "absent"]]
    /\ today = 1
    /\ clock = 0
    /\ qp = [p \in Procs |-> NoSid]
    /\ pc = [p \in Procs |-> "idle"]
    /\ call = [p \in Procs |-> NoCall]
    /\ incSum = [u \in Uids |-> [d \in Days |-> 0]]
    /\ granted = [u \in Uids |-> 0]
    /\ consumed = [u \in Uids |-> 0]
    /\ sessGrants = [s \in Sessions |-> 0]
    /\ freeReadings = [u \in Uids |-> [d \in Days |-> 0]]
    /\ crashes = 0
    /\ session = [p \in Procs |-> init_state]

\* ------------------------------------------------------------ environment
\* The calendar day advances (datetime.date.today()).
AdvanceDay ==
    /\ today < MaxDay
    /\ today' = today + 1
    /\ UNCHANGED <<db, txn, stripe, clock, qp, pc, call, histVars, crashes, session>>

\* Time passes (datetime.datetime.utcnow()).
Tick ==
    /\ clock < MaxClock
    /\ clock' = clock + 1
    /\ UNCHANGED <<db, txn, stripe, today, qp, pc, call, histVars, crashes, session>>

\* ------------------------------------------------------- free daily quota
\* get_free_used(uid): one SELECT, no write.
GetFreeUsed(p, u) ==
    /\ Idle(p)
    /\ call' = [call EXCEPT ![p] =
                  Returned(NewCall("get_free_used", u, 0, NoSid),
                           "int", "none", get_free_used(u))]
    /\ UNCHANGED <<db, txn, pc, envVars, histVars, crashes, session>>

\* inc_free_used(uid, n): the arguments of cur.execute are evaluated,
\* today_key() among them (line 178), before the statement runs.
IncFreeUsedCall(p, u, n) ==
    /\ Idle(p)
    /\ pc' = [pc EXCEPT ![p] = "inc_wait"]
    /\ call' = [call EXCEPT ![p] =
                  [NewCall("inc_free_used", u, n, NoSid) EXCEPT !.day = today_key]]
    /\ UNCHANGED <<db, txn, envVars, histVars, crashes, session>>

\* inc_free_used: cur.execute of the upsert, with the day read before.
IncFreeUsedExecute(p) ==
    /\ pc[p] = "inc_wait"
    /\ Execute(p, [db EXCEPT !.usage_daily =
                     UpsertUsage(@, call[p].uid, call[p].day, call[p].n)])
    /\ pc' = [pc EXCEPT ![p] = "inc_commit"]
    /\ UNCHANGED <<call, envVars, histVars, crashes, session>>

\* inc_free_used: conn.commit(); the function returns None.
IncFreeUsedCommit(p) ==
    /\ pc[p] = "inc_commit"
    /\ Commit(p)
    /\ pc' = [pc EXCEPT ![p] = "idle"]
    /\ call' = [call EXCEPT ![p] = Returned(@, "None", "none", 0)]
    /\ incSum' = [incSum EXCEPT ![call[p].uid][call[p].day] = @ + call[p].n]
    /\ UNCHANGED <<envVars, granted, consumed, sessGrants, freeReadings, crashes, session>>

\* can_use_free(uid): get_free_used's SELECT and the comparison, no write.
CanUseFree(p, u) ==
    /\ Idle(p)
    /\ call' = [call EXCEPT ![p] =
                  Returned(NewCall("can_use_free", u, 0, NoSid),
                           IF can_use_free(u) THEN "True" ELSE "False",
                           "none", 0)]
    /\ UNCHANGED <<db, txn, pc, envVars, histVars, crashes, session>>

\* ------------------------------------------------------------------ crash
\* The thread dies (process killed, exception) anywhere inside a call: an
\* open transaction is rolled back and its lock released.
CrashBody(p) ==
    /\ ~Idle(p)
    /\ txn' = IF txn.owner = p THEN NoTxn ELSE txn
    /\ pc' = [pc EXCEPT ![p] = "idle"]
    /\ call' = [call EXCEPT ![p] = Returned(@, "crashed", "none", 0)]
    /\ UNCHANGED <<db, envVars, histVars, session>>

Crash(p) == CrashBody(p) /\ UNCHANGED crashes

\* A crash counted against the crash budget of the fair specification.
CountedCrash(p) ==
    /\ crashes < MaxCrashes
    /\ CrashBody(p)
    /\ crashes' = crashes + 1

\* ----------------------------------------------------------- deep credits
\* get_deep_credits(uid): one SELECT, no write.
GetDeepCredits(p, u) ==
    /\ Idle(p)
    /\ call' = [call EXCEPT ![p] =
                  Returned(NewCall("get_deep_credits", u, 0, NoSid),
                           "int", "none", get_deep_credits(u))]
    /\ UNCHANGED <<db, txn, pc, envVars, histVars, crashes, session>>

\* add_deep_credits(uid, n): now = utcnow() (line 194).
AddDeepCreditsNow(p, u, n) ==
    /\ Idle(p)
    /\ pc' = [pc EXCEPT ![p] = "add_wait"]
    /\ call' = [call EXCEPT ![p] =
                  [NewCall("add_deep_credits", u, n, NoSid) EXCEPT !.now = clock]]
    /\ UNCHANGED <<db, txn, envVars, histVars, crashes, session>>

\* add_deep_credits: cur.execute of the upsert.
AddDeepCreditsExecute(p) ==
    /\ pc[p] = "add_wait"
    /\ Execute(p, [db EXCEPT !.user_credits =
                     UpsertCredits(@, call[p].uid, call[p].n, call[p].now)])
    /\ pc' = [pc EXCEPT ![p] = "add_commit"]
    /\ UNCHANGED <<call, envVars, histVars, crashes, session>>

\* add_deep_credits: conn.commit(); the function returns None.
AddDeepCreditsCommit(p) ==
    /\ pc[p] = "add_commit"
    /\ Commit(p)
    /\ pc' = [pc EXCEPT ![p] = "idle"]
    /\ call' = [call EXCEPT ![p] = Returned(@, "None", "none", 0)]
    /\ granted' = [granted EXCEPT ![call[p].uid] = @ + call[p].n]
    /\ UNCHANGED <<envVars, incSum, consumed, sessGrants, freeReadings, crashes, session>>

\* Mutant of ConsumeSelect: the test "cur_credits < n" is missing.
ConsumeSelectNoTest(p, u, n) ==
    /\ Idle(p)
    /\ call' = [call EXCEPT ![p] = NewCall("consume_deep_credit", u, n, NoSid)]
    /\ pc' = [pc EXCEPT ![p] = "consume_update"]
    /\ UNCHANGED <<db, txn, envVars, histVars, crashes, session>>

\* consume_deep_credit(uid, n): the SELECT, cur_credits, and the test
\* "if cur_credits < n: return False".
ConsumeSelect(p, u, n) ==
    /\ Idle(p)
    /\ LET cur_credits == get_deep_credits(u)
           c == NewCall("consume_deep_credit", u, n, NoSid)
       IN IF cur_credits < n
          THEN /\ call' = [call EXCEPT ![p] = Returned(c, "False", "none", 0)]
               /\ UNCHANGED pc
          ELSE /\ call' = [call EXCEPT ![p] = c]
               /\ pc' = [pc EXCEPT ![p] = "consume_update"]
    /\ UNCHANGED <<db, txn, envVars, histVars, crashes, session>>

\* consume_deep_credit: now = utcnow() (line 213).
ConsumeNow(p) ==
    /\ pc[p] = "consume_update"
    /\ pc' = [pc EXCEPT ![p] = "consume_wait"]
    /\ call' = [call EXCEPT ![p].now = clock]
    /\ UNCHANGED <<db, txn, envVars, histVars, crashes, session>>

\* consume_deep_credit: cur.execute of the UPDATE, which subtracts n from
\* the value stored when the UPDATE runs.
ConsumeUpdate(p) ==
    /\ pc[p] = "consume_wait"
    /\ Execute(p, [db EXCEPT !.user_credits =
                     UpdateCredits(@, call[p].uid, call[p].n, call[p].now)])
    /\ pc' = [pc EXCEPT ![p] = "consume_commit"]
    /\ UNCHANGED <<call, envVars, histVars, crashes, session>>

\* consume_deep_credit: conn.commit(); return True.
ConsumeCommit(p) ==
    /\ pc[p] = "consume_commit"
    /\ Commit(p)
    /\ pc' = [pc EXCEPT ![p] = "idle"]
    /\ call' = [call EXCEPT ![p] = Returned(@, "True", "none", 0)]
    /\ consumed' = [consumed EXCEPT ![call[p].uid] = @ + call[p].n]
    /\ UNCHANGED <<envVars, incSum, granted, sessGrants, freeReadings, crashes, session>>

\* ----------------------------------------------------------------- Stripe
\* Stripe hands out fresh session ids; the model uses them in this order.
SidBefore(r, s) == r = "s1" /\ s = "s2"

\* create_checkout_session(uid): Stripe creates a session whose
\* client_reference_id and metadata uid are uid; it is not paid yet.
CreateSession(u) ==
    \E s \in Sessions :
       /\ stripe[s].status = "absent"
       /\ \A r \in Sessions : stripe[r].status = "absent" => ~SidBefore(r, s)
       /\ stripe' = [stripe EXCEPT ![s] = [owner |-> u, status |-> "unpaid"]]

CreateCheckoutSession(u) ==
    /\ CreateSession(u)
    /\ UNCHANGED <<db, txn, today, clock, qp, pc, call, histVars, crashes, session>>

\* The customer completes the payment on Stripe's hosted page.
PayComplete(s) ==
    /\ stripe[s].status = "unpaid"
    /\ stripe' = [stripe EXCEPT ![s].status = "paid"]
    /\ UNCHANGED <<db, txn, today, clock, qp, pc, call, histVars, crashes, session>>

Return(p, ret, msg) ==
    /\ pc' = [pc EXCEPT ![p] = "idle"]
    /\ call' = [call EXCEPT ![p] = Returned(@, ret, msg, 0)]

\* Mutant of VerifyCheck: the stripe_session_already_processed test is
\* missing.
VerifyCheckNoTest(p, u, s) ==
    /\ Idle(p)
    /\ LET c == NewCall("verify_and_grant_from_session", u, 0, s)
       IN IF s = NoSid
          THEN /\ call' = [call EXCEPT ![p] =
                             Returned(c, "False", "missing", 0)]
               /\ UNCHANGED pc
          ELSE /\ call' = [call EXCEPT ![p] = c]
               /\ pc' = [pc EXCEPT ![p] = "v_retrieve"]
    /\ UNCHANGED <<db, txn, envVars, histVars, crashes, session>>

\* verify_and_grant_from_session(uid, session_id): the empty-id test and
\* the stripe_session_already_processed test.
VerifyCheck(p, u, s) ==
    /\ Idle(p)
    /\ LET c == NewCall("verify_and_grant_from_session", u, 0, s)
       IN IF s = NoSid
          THEN /\ call' = [call EXCEPT ![p] =
                             Returned(c, "False", "missing", 0)]
               /\ UNCHANGED pc
          ELSE IF stripe_session_already_processed(s)
          THEN /\ call' = [call EXCEPT ![p] =
                             Returned(c, "True", "already", 0)]
               /\ UNCHANGED pc
          ELSE /\ call' = [call EXCEPT ![p] = c]
               /\ pc' = [pc EXCEPT ![p] = "v_retrieve"]
    /\ UNCHANGED <<db, txn, envVars, histVars, crashes, session>>

\* stripe.checkout.Session.retrieve raises (unknown id, network).
RetrieveRaises(p) ==
    /\ pc[p] = "v_retrieve"
    /\ Return(p, "False", "lookup_failed")
    /\ UNCHANGED <<db, txn, envVars, histVars, session>>

VerifyRetrieveRaises(p) == RetrieveRaises(p) /\ UNCHANGED crashes

\* A failed lookup, counted against the budget of the fair specification.
CountedRetrieveRaises(p) ==
    /\ crashes < MaxCrashes
    /\ RetrieveRaises(p)
    /\ crashes' = crashes + 1

\* Mutant of VerifyRetrieve: payment_status is compared with a value Stripe
\* never reports, so every session counts as not paid.
VerifyRetrieveWrongStatus(p) ==
    /\ pc[p] = "v_retrieve"
    /\ stripe[call[p].sid].status # "absent"
    /\ Return(p, "False", "unpaid")
    /\ UNCHANGED <<db, txn, envVars, histVars, crashes, session>>

\* Mutant of VerifyRetrieve: the sess_uid test is missing.
VerifyRetrieveNoUidTest(p) ==
    /\ pc[p] = "v_retrieve"
    /\ stripe[call[p].sid].status # "absent"
    /\ IF stripe[call[p].sid].status # "paid"
       THEN Return(p, "False", "unpaid")
       ELSE /\ pc' = [pc EXCEPT ![p] = "v_add"]
            /\ UNCHANGED call
    /\ UNCHANGED <<db, txn, envVars, histVars, crashes, session>>

\* Mutant of VerifyRetrieve: a session that is not paid is recorded in
\* stripe_sessions before the call returns False.
VerifyRetrieveRecordsUnpaid(p) ==
    /\ pc[p] = "v_retrieve"
    /\ stripe[call[p].sid].status # "absent"
    /\ LET sess == stripe[call[p].sid]
           sess_uid == sess.owner
       IN IF sess.status # "paid"
          THEN /\ Return(p, "False", "unpaid")
               /\ txn.owner = NoProc
               /\ db' = [db EXCEPT !.stripe_sessions =
                           InsertOrIgnoreSession(@, call[p].sid,
                                                 call[p].uid, clock)]
               /\ UNCHANGED txn
          ELSE IF sess_uid # NoUid /\ sess_uid # call[p].uid
          THEN Return(p, "False", "mismatch") /\ UNCHANGED <<db, txn>>
          ELSE /\ pc' = [pc EXCEPT ![p] = "v_add"]
               /\ UNCHANGED <<call, db, txn>>
    /\ UNCHANGED <<envVars, histVars, crashes, session>>

\* retrieve returns the session: the payment_status test and the uid test.
VerifyRetrieve(p) ==
    /\ pc[p] = "v_retrieve"
    /\ stripe[call[p].sid].status # "absent"
    /\ LET sess == stripe[call[p].sid]
           sess_uid == sess.owner
       IN IF sess.status # "paid"
          THEN Return(p, "False", "unpaid")
          ELSE IF sess_uid # NoUid /\ sess_uid # call[p].uid
          THEN Return(p, "False", "mismatch")
          ELSE /\ pc' = [pc EXCEPT ![p] = "v_add"]
               /\ UNCHANGED call
    /\ UNCHANGED <<db, txn, envVars, histVars, crashes, session>>

\* add_deep_credits(uid, 1) inside verify: now = utcnow() (line 194).
VerifyAddNow(p) ==
    /\ pc[p] = "v_add"
    /\ pc' = [pc EXCEPT ![p] = "v_add_wait"]
    /\ call' = [call EXCEPT ![p].now = clock]
    /\ UNCHANGED <<db, txn, envVars, histVars, crashes, session>>

\* add_deep_credits inside verify: cur.execute of the upsert.
VerifyAddExecute(p) ==
    /\ pc[p] = "v_add_wait"
    /\ Execute(p, [db EXCEPT !.user_credits =
                     UpsertCredits(@, call[p].uid, 1, call[p].now)])
    /\ pc' = [pc EXCEPT ![p] = "v_add_commit"]
    /\ UNCHANGED <<call, envVars, histVars, crashes, session>>

\* Mutant of VerifyAddCommit: conn.commit() is missing, so closing the
\* connection rolls the grant back.
VerifyAddRollback(p) ==
    /\ pc[p] = "v_add_commit"
    /\ txn.owner = p
    /\ txn' = NoTxn
    /\ pc' = [pc EXCEPT ![p] = "v_mark"]
    /\ UNCHANGED <<db, call, envVars, histVars, crashes, session>>

\* add_deep_credits inside verify: conn.commit().
VerifyAddCommit(p) ==
    /\ pc[p] = "v_add_commit"
    /\ Commit(p)
    /\ pc' = [pc EXCEPT ![p] = "v_mark"]
    /\ granted' = [granted EXCEPT ![call[p].uid] = @ + 1]
    /\ sessGrants' = [sessGrants EXCEPT ![call[p].sid] = @ + 1]
    /\ UNCHANGED <<call, envVars, incSum, consumed, freeReadings, crashes, session>>

\* mark_stripe_session_processed(session_id, uid) inside verify:
\* now = utcnow() (line 228).
VerifyMarkNow(p) ==
    /\ pc[p] = "v_mark"
    /\ pc' = [pc EXCEPT ![p] = "v_mark_wait"]
    /\ call' = [call EXCEPT ![p].now = clock]
    /\ UNCHANGED <<db, txn, envVars, histVars, crashes, session>>

\* mark_stripe_session_processed inside verify: cur.execute.
VerifyMarkExecute(p) ==
    /\ pc[p] = "v_mark_wait"
    /\ Execute(p, [db EXCEPT !.stripe_sessions =
                     InsertOrIgnoreSession(@, call[p].sid, call[p].uid,
                                           call[p].now)])
    /\ pc' = [pc EXCEPT ![p] = "v_mark_commit"]
    /\ UNCHANGED <<call, envVars, histVars, crashes, session>>

\* mark_stripe_session_processed: conn.commit(); verify returns True.
VerifyMarkCommit(p) ==
    /\ pc[p] = "v_mark_commit"
    /\ Commit(p)
    /\ Return(p, "True", "granted")
    /\ UNCHANGED <<envVars, histVars, crashes, session>>

\* ------------------------------------------------- processed-session table
\* stripe_session_already_processed(session_id): one SELECT, no write.
StripeSessionAlreadyProcessed(p, s) ==
    /\ Idle(p)
    /\ call' = [call EXCEPT ![p] =
                  Returned(NewCall("stripe_session_already_processed",
                                   NoUid, 0, s),
                           IF stripe_session_already_processed(s)
                           THEN "True" ELSE "False",
                           "none", 0)]
    /\ UNCHANGED <<db, txn, pc, envVars, histVars, crashes, session>>

\* mark_stripe_session_processed(session_id, uid): now = utcnow()
\* (line 228).
MarkNow(p, s, u) ==
    /\ Idle(p)
    /\ pc' = [pc EXCEPT ![p] = "mark_wait"]
    /\ call' = [call EXCEPT ![p] =
                  [NewCall("mark_stripe_session_processed", u, 0, s)
                      EXCEPT !.now = clock]]
    /\ UNCHANGED <<db, txn, envVars, histVars, crashes, session>>

\* mark_stripe_session_processed: cur.execute of INSERT OR IGNORE, which
\* does not raise on a conflict.
MarkExecute(p) ==
    /\ pc[p] = "mark_wait"
    /\ Execute(p, [db EXCEPT !.stripe_sessions =
                     InsertOrIgnoreSession(@, call[p].sid, call[p].uid,
                                           call[p].now)])
    /\ pc' = [pc EXCEPT ![p] = "mark_commit"]
    /\ UNCHANGED <<call, envVars, histVars, crashes, session>>

\* mark_stripe_session_processed: conn.commit(); the function returns None.
MarkCommit(p) ==
    /\ pc[p] = "mark_commit"
    /\ Commit(p)
    /\ Return(p, "None", "none")
    /\ UNCHANGED <<envVars, histVars, crashes, session>>

\* ----------------------------------------------------------- storage errors
\* The ledger functions of lines 164-236 have no try/except: an exception of
\* sqlite3 (connect, execute or commit: disk error, "database is locked"
\* after the busy timeout) leaves the function as it is raised.  The
\* connection is dropped with the frame, which rolls back what it had open.
LedgerOps ==
    {"get_free_used", "inc_free_used", "can_use_free", "get_deep_credits",
     "add_deep_credits", "consume_deep_credit",
     "stripe_session_already_processed", "mark_stripe_session_processed"}

\* Where a call waits for the lock of its first statement, and where it is
\* past its first statement (the UPDATE of consume_deep_credit, a commit).
FirstStatementPcs == {"inc_wait", "add_wait", "mark_wait"}

LedgerPcs ==
    {"inc_commit", "add_commit", "consume_wait", "consume_commit",
     "mark_commit"}

\* Mutant of StorageError: the function catches the exception and returns
\* False.
StorageErrorSwallowed(p) ==
    /\ pc[p] \in LedgerPcs \cup FirstStatementPcs
    /\ txn' = IF txn.owner = p THEN NoTxn ELSE txn
    /\ pc' = [pc EXCEPT ![p] = "idle"]
    /\ call' = [call EXCEPT ![p] = Returned(@, "False", "none", 0)]
    /\ UNCHANGED <<db, envVars, histVars, crashes, session>>

\* sqlite3 raises inside a call: at a statement that waits for the lock
\* ("database is locked" when the wait ends) or at a conn.commit().
StorageError(p) ==
    /\ pc[p] \in LedgerPcs \cup FirstStatementPcs
    /\ txn' = IF txn.owner = p THEN NoTxn ELSE txn
    /\ pc' = [pc EXCEPT ![p] = "idle"]
    /\ call' = [call EXCEPT ![p] =
                  Returned(@, "raised",
                           IF pc[p] \in FirstStatementPcs
                           THEN "first_statement" ELSE "later_statement", 0)]
    /\ UNCHANGED <<db, envVars, histVars, crashes, session>>

\* sqlite3 raises in add_deep_credits or mark_stripe_session_processed
\* called by verify_and_grant_from_session (lines 286, 287), at the
\* statement that waits for the lock or at conn.commit(): there is no try
\* around the two calls, the exception leaves verify_and_grant_from_session.
VerifyStorageError(p) ==
    /\ pc[p] \in {"v_add_wait", "v_add_commit", "v_mark_wait", "v_mark_commit"}
    /\ txn' = IF txn.owner = p THEN NoTxn ELSE txn
    /\ pc' = [pc EXCEPT ![p] = "idle"]
    /\ call' = [call EXCEPT ![p] = Returned(@, "raised", "later_statement", 0)]
    /\ UNCHANGED <<db, envVars, histVars, crashes, session>>

\* sqlite3 raises at db_conn() or at the first statement of a call of the
\* function op, whatever its arguments.
CallRaises(p, op) ==
    /\ Idle(p)
    /\ call' = [call EXCEPT ![p] =
                  Returned(NewCall(op, NoUid, 0, NoSid),
                           "raised", "first_statement", 0)]
    /\ UNCHANGED <<db, txn, pc, envVars, histVars, crashes, session>>

\* ------------------------------------------------------------ reading flow
\* One script run of a browser tab whose page is at the generate-reading
\* step (lines 784-830) or whose upgrade button was clicked (lines 908-939).
\* The run's locals are in its call record: want_deep, whether the model
\* call has returned (generated), whether the ledger was charged (charged).

\* What stays of a run that has ended: how it ended (ret, msg) and the flags.
FlowEnded(c, ret, msg) ==
    [Returned(c, ret, msg, 0) EXCEPT !.generated = c.generated,
                                     !.charged = c.charged]

FlowReturn(p, ret, msg) ==
    /\ pc' = [pc EXCEPT ![p] = "idle"]
    /\ call' = [call EXCEPT ![p] = FlowEnded(@, ret, msg)]

\* deep_left = get_deep_credits(uid); want_deep = deep_left > 0
GenStart(p, u) ==
    /\ Idle(p)
    /\ LET deep_left == get_deep_credits(u)
           want_deep == deep_left > 0
       IN /\ call' = [call EXCEPT ![p] =
                        [NewCall("generate_reading", u, 1, NoSid)
                            EXCEPT !.want_deep = want_deep]]
          /\ pc' = [pc EXCEPT ![p] =
                      IF want_deep THEN "g_consume" ELSE "g_can_free"]
    /\ UNCHANGED <<db, txn, envVars, histVars, crashes>>

\* Mutant of GenCanUseFree: the can_use_free test is missing, the free model
\* call is always made.
GenCanUseFreeNoTest(p) ==
    /\ pc[p] = "g_can_free"
    /\ pc' = [pc EXCEPT ![p] = "g_ai_free"]
    /\ UNCHANGED call
    /\ UNCHANGED <<db, txn, envVars, histVars, crashes>>

\* if (not want_deep) and (not can_use_free(uid)): the paywall is shown and
\* no reading is generated; otherwise the free model call is made.
GenCanUseFree(p) ==
    /\ pc[p] = "g_can_free"
    /\ IF ~can_use_free(call[p].uid)
       THEN FlowReturn(p, "paywall", "none")
       ELSE /\ pc' = [pc EXCEPT ![p] = "g_ai_free"]
            /\ UNCHANGED call
    /\ UNCHANGED <<db, txn, envVars, histVars, crashes>>

\* txt = ai_free(...) returns: a free reading has been generated.
GenAiFreeReturns(p) ==
    /\ pc[p] = "g_ai_free"
    /\ pc' = [pc EXCEPT ![p] = "g_inc"]
    /\ call' = [call EXCEPT ![p].generated = TRUE]
    /\ freeReadings' = [freeReadings EXCEPT ![call[p].uid][today] = @ + 1]
    /\ UNCHANGED <<db, txn, envVars, incSum, granted, consumed, sessGrants,
                   crashes>>

\* ai_free raises: "except Exception" sets data = None and the failure text;
\* inc_free_used is not reached.
GenAiFreeRaises(p) ==
    /\ pc[p] = "g_ai_free"
    /\ FlowReturn(p, "failed", "model")
    /\ UNCHANGED <<db, txn, envVars, histVars, crashes>>

\* inc_free_used(uid, 1) of the free path: the arguments of cur.execute
\* are evaluated, today_key() among them (line 178).
GenIncCall(p) ==
    /\ pc[p] = "g_inc"
    /\ pc' = [pc EXCEPT ![p] = "g_inc_wait"]
    /\ call' = [call EXCEPT ![p].day = today_key]
    /\ UNCHANGED <<db, txn, envVars, histVars, crashes>>

\* inc_free_used(uid, 1) of the free path: cur.execute of the upsert.
GenIncExecute(p) ==
    /\ pc[p] = "g_inc_wait"
    /\ Execute(p, [db EXCEPT !.usage_daily =
                     UpsertUsage(@, call[p].uid, call[p].day, 1)])
    /\ pc' = [pc EXCEPT ![p] = "g_inc_commit"]
    /\ UNCHANGED <<call, envVars, histVars, crashes>>

\* inc_free_used of the free path: conn.commit(); reading_is_deep = False.
GenIncCommit(p) ==
    /\ pc[p] = "g_inc_commit"
    /\ Commit(p)
    /\ pc' = [pc EXCEPT ![p] = "g_parse"]
    /\ call' = [call EXCEPT ![p].charged = TRUE]
    /\ incSum' = [incSum EXCEPT ![call[p].uid][call[p].day] = @ + 1]
    /\ UNCHANGED <<envVars, granted, consumed, sessGrants, freeReadings, crashes>>

\* The upgrade button (shown while get_deep_credits(uid) > 0) was clicked.
UpgStart(p, u) ==
    /\ Idle(p)
    /\ get_deep_credits(u) > 0
    /\ call' = [call EXCEPT ![p] =
                  [NewCall("upgrade_to_deep", u, 1, NoSid)
                      EXCEPT !.want_deep = TRUE]]
    /\ pc' = [pc EXCEPT ![p] = "g_consume"]
    /\ UNCHANGED <<db, txn, envVars, histVars, crashes>>

\* consume_deep_credit(uid, 1) of the deep path: the SELECT and the test.
\* On False the generate step shows an error and stops the run (st.stop),
\* the upgrade shows an error; no reading is generated.
FlowConsumeSelect(p) ==
    /\ pc[p] = "g_consume"
    /\ LET cur_credits == get_deep_credits(call[p].uid)
       IN IF cur_credits < call[p].n
          THEN FlowReturn(p, IF call[p].op = "generate_reading"
                             THEN "stopped" ELSE "error", "insufficient")
          ELSE /\ pc' = [pc EXCEPT ![p] = "g_consume_update"]
               /\ UNCHANGED call
    /\ UNCHANGED <<db, txn, envVars, histVars, crashes>>

\* consume_deep_credit of the deep path: now = utcnow() (line 213).
FlowConsumeNow(p) ==
    /\ pc[p] = "g_consume_update"
    /\ pc' = [pc EXCEPT ![p] = "g_consume_wait"]
    /\ call' = [call EXCEPT ![p].now = clock]
    /\ UNCHANGED <<db, txn, envVars, histVars, crashes>>

\* consume_deep_credit of the deep path: cur.execute of the UPDATE.
FlowConsumeUpdate(p) ==
    /\ pc[p] = "g_consume_wait"
    /\ Execute(p, [db EXCEPT !.user_credits =
                     UpdateCredits(@, call[p].uid, call[p].n, call[p].now)])
    /\ pc' = [pc EXCEPT ![p] = "g_consume_commit"]
    /\ UNCHANGED <<call, envVars, histVars, crashes>>

\* consume_deep_credit of the deep path: conn.commit(); return True; the
\* deep model call comes next.
FlowConsumeCommit(p) ==
    /\ pc[p] = "g_consume_commit"
    /\ Commit(p)
    /\ pc' = [pc EXCEPT ![p] = "g_ai_deep"]
    /\ call' = [call EXCEPT ![p].charged = TRUE]
    /\ consumed' = [consumed EXCEPT ![call[p].uid] = @ + call[p].n]
    /\ UNCHANGED <<envVars, incSum, granted, sessGrants, freeReadings, crashes>>

\* txt = ai_deep(...) returns; reading_is_deep = True.
FlowAiDeepReturns(p) ==
    /\ pc[p] = "g_ai_deep"
    /\ pc' = [pc EXCEPT ![p] = "g_parse"]
    /\ call' = [call EXCEPT ![p].generated = TRUE]
    /\ UNCHANGED <<db, txn, envVars, histVars, crashes>>

\* ai_deep raises: "except Exception" stores the failure text.  The generate
\* step ends without a reading; the upgrade stores {"raw": failure text} as
\* the reading.
FlowAiDeepRaises(p) ==
    /\ pc[p] = "g_ai_deep"
    /\ IF call[p].op = "generate_reading"
       THEN FlowReturn(p, "failed", "model")
       ELSE FlowReturn(p, "reading", "error")
    /\ UNCHANGED <<db, txn, envVars, histVars, crashes>>

\* What parse_json_safely(txt) or repair_json_with_model(txt) evaluates to.
\* parse_json_safely returns json.loads of the text, whatever JSON value it
\* is, or None: "data" is an object the page can show, "empty" the object
\* {}, "other" a value the page cannot show (a list, a string, a number, or
\* an object whose fields have another shape than lines 843-902 expect),
\* "zero" one of [], "", 0 and false.
ParseResults == {"data", "empty", "other", "zero", "None"}

\* bool(data)
Truthy(data) == data \in {"data", "other"}

\* The kind of reading that the stored value is.
ReadingKind(data) ==
    CASE data \in {"data", "empty"} -> "data"
      [] data \in {"other", "zero"} -> "other"
      [] OTHER -> "None"

\* data = parse_json_safely(txt) or repair_json_with_model(txt).  The
\* generate step stores data if data else {"raw": txt} (line 815); the
\* upgrade stores data as it is (line 926).  msg is the kind of reading
\* that is stored.
FlowParse(p) ==
    /\ pc[p] = "g_parse"
    /\ \E data \in ParseResults :
          FlowReturn(p, "reading",
                     IF call[p].op = "generate_reading"
                     THEN IF Truthy(data) THEN ReadingKind(data) ELSE "raw"
                     ELSE ReadingKind(data))
    /\ UNCHANGED <<db, txn, envVars, histVars, crashes>>

\* repair_json_with_model (a second model call) raises: the failure text
\* replaces what was generated.
FlowRepairRaises(p) ==
    /\ pc[p] = "g_parse"
    /\ IF call[p].op = "generate_reading"
       THEN FlowReturn(p, "failed", "repair")
       ELSE FlowReturn(p, "reading", "error")
    /\ UNCHANGED <<db, txn, envVars, histVars, crashes>>

\* A ledger call of the flow raises: the database cannot be opened, is still
\* locked when the wait ends, or conn.commit() fails; what the call had
\* open is rolled back.  Inside the try block of the generate step (lines
\* 797-813) "except Exception" stores the failure text; can_use_free (line
\* 792) and the consume_deep_credit of the upgrade (line 914) are outside
\* a try block, so the exception ends the run.
FlowLedgerPcs ==
    {"g_can_free", "g_consume", "g_consume_wait", "g_consume_commit",
     "g_inc", "g_inc_wait", "g_inc_commit"}

FlowLedgerRaises(p) ==
    /\ pc[p] \in FlowLedgerPcs
    /\ txn' = IF txn.owner = p THEN NoTxn ELSE txn
    /\ IF call[p].op = "generate_reading" /\ pc[p] # "g_can_free"
       THEN FlowReturn(p, "failed", "ledger")
       ELSE FlowReturn(p, "error", "ledger")
    /\ UNCHANGED <<db, envVars, histVars, crashes>>

\* ------------------------------------------------------------ session flow
\* st.session_state of each browser tab and the script runs of the tab.  A
\* script run executes the page from the top: the Stripe success callback
\* when the tab's link carries success=1 and a session_id (lines 585-592),
\* then the handler of the button that was clicked, or the generate step, or
\* the upgrade.  A tab runs one script at a time.

\* uid = get_or_create_uid(): the tabs were opened with the same ?uid= link.
TabUid(p) == "u1"


\* The browser follows the success_url of a checkout session (line 247:
\* ?uid=..&success=1&session_id=..), to which Stripe sends the customer
\* back: a page load, so the page starts with a new st.session_state, which
\* init_state fills with the defaults (line 576); the page that was shown
\* before is left behind.  The model follows one such link per tab.
OpenSuccessLink(p, s) ==
    /\ Idle(p)
    /\ qp[p] = NoSid
    /\ stripe[s].status # "absent"
    /\ qp' = [qp EXCEPT ![p] = s]
    /\ session' = [session EXCEPT ![p] = init_state]
    /\ call' = [call EXCEPT ![p] = NoCall]
    /\ UNCHANGED <<db, txn, stripe, today, clock, pc, histVars, crashes>>

\* session_id = qp.get("session_id") when qp.get("success") is "1".
SuccessSid(p) == qp[p]

\* A script run begins (a page load, a click, a rerun): when the link has
\* a session_id, lines 585-588 call verify_and_grant_from_session(uid,
\* session_id) before anything of the page is shown.
RunStart(p) ==
    /\ SuccessSid(p) # NoSid
    /\ VerifyCheck(p, TabUid(p), SuccessSid(p))

\* The run is at the top of the page (line 594) and no button has been
\* handled yet.  In a tab whose link has no session_id every script run
\* passes lines 581-592 without a call and reaches the page, whatever the
\* run before it did; in a tab with a success link the callback of this
\* run has returned True or False.
PageTop(p) ==
    /\ Idle(p)
    /\ SuccessSid(p) # NoSid =>
          /\ call[p].op = "verify_and_grant_from_session"
          /\ call[p].ret \in {"True", "False"}

\* The run has handled the pay button (lines 636-641), which does not end
\* the run: the rest of the page follows, with no other button clicked.  In
\* a tab with a success link the next button needs a new run, which starts
\* with the callback.
AfterPay(p) == Idle(p) /\ call[p].op = "create_checkout_session"

\* The pay button: create_checkout_session(uid) inside try; when it raises
\* an error is shown and nothing is created.  The model clicks it only while
\* Stripe has no checkout session yet.
SessionPay(p) ==
    /\ PageTop(p)
    /\ \A s \in Sessions : stripe[s].status = "absent"
    /\ \E created \in BOOLEAN :
          /\ IF created THEN CreateSession(TabUid(p)) ELSE UNCHANGED stripe
          /\ call' = [call EXCEPT ![p] =
                        Returned(NewCall("create_checkout_session",
                                         TabUid(p), 0, NoSid),
                                 IF created THEN "url" ELSE "raised",
                                 "none", 0)]
    /\ UNCHANGED <<db, txn, today, clock, qp, pc, histVars, crashes, session>>

\* A button handler runs in two steps, in the order of its assignments:
\* Handler(p, h) is at the button that was clicked, Handled(p) at the
\* handler's last assignments and its st.rerun(), which ends the run.
HandlerPcs == {"h_next", "h_restart", "h_draw", "h_flip", "h_undo", "h_redraw"}

Handler(p, h) ==
    /\ PageTop(p)
    /\ pc' = [pc EXCEPT ![p] = h]
    /\ call' = [call EXCEPT ![p] = NoCall]
    /\ UNCHANGED <<db, txn, envVars, histVars, crashes>>

Handled(p, h) ==
    /\ pc[p] = h
    /\ pc' = [pc EXCEPT ![p] = "idle"]
    /\ UNCHANGED <<db, txn, call, envVars, histVars, crashes>>

\* The next-step button (lines 658-664): a warning when the question is
\* empty, and the run goes on down the page; else stage, reading and
\* reading_is_deep are assigned.
NextStep(p) ==
    \E question \in {"", "q"} :
       IF question = ""
       THEN PageTop(p) /\ UNCHANGED vars
       ELSE /\ Handler(p, "h_next")
            /\ session' = [session EXCEPT ![p].stage = "followup",
                                          ![p].reading = "None",
                                          ![p].reading_is_deep = FALSE]

\* The next-step button (lines 665-668): the cards and the index.
NextStepCards(p) ==
    /\ Handled(p, "h_next")
    /\ session' = [session EXCEPT ![p].drawn_cards = 0,
                                  ![p].reveal_index = -1]

\* The restart button (lines 670-672): the keys are reset in the order of
\* the list: stage, reading, reading_is_deep first.
Restart(p) ==
    /\ Handler(p, "h_restart")
    /\ session' = [session EXCEPT ![p].stage = init_state.stage,
                                  ![p].reading = init_state.reading,
                                  ![p].reading_is_deep =
                                      init_state.reading_is_deep]

\* The restart button (lines 672-673): drawn_cards and reveal_index.
RestartCards(p) ==
    /\ Handled(p, "h_restart")
    /\ session' = [session EXCEPT ![p].drawn_cards = init_state.drawn_cards,
                                  ![p].reveal_index = init_state.reveal_index]

\* The two draw buttons of the follow-up section (lines 686-697, 703-715):
\* three cards are drawn and the index is reset.
DrawCards(p) ==
    /\ Handler(p, "h_draw")
    /\ session[p].stage \in {"followup", "draw", "reading"}
    /\ session' = [session EXCEPT ![p].drawn_cards = 3,
                                  ![p].reveal_index = -1]

\* The draw buttons (lines 698-701, 716-719): the reading is cleared.
DrawCardsClear(p) ==
    /\ Handled(p, "h_draw")
    /\ session' = [session EXCEPT ![p].reading = "None",
                                  ![p].reading_is_deep = FALSE,
                                  ![p].stage = "draw"]

\* The flip section is shown: stage in ["draw", "reading"] and drawn_cards.
FlipSectionShown(p) ==
    /\ session[p].stage \in {"draw", "reading"}
    /\ session[p].drawn_cards # 0

\* The flip button (lines 733-735): the next card is revealed, or a notice
\* when all are and the run goes on down the page.
Flip(p) ==
    /\ FlipSectionShown(p)
    /\ LET reveal == session[p].reveal_index
       IN IF reveal < 2
          THEN /\ Handler(p, "h_flip")
               /\ session' = [session EXCEPT ![p].reveal_index = reveal + 1]
          ELSE PageTop(p) /\ UNCHANGED vars

\* The flip button (lines 736-739): the reading is cleared.
FlipClear(p) ==
    /\ Handled(p, "h_flip")
    /\ session' = [session EXCEPT ![p].reading = "None",
                                  ![p].reading_is_deep = FALSE,
                                  ![p].stage = "draw"]

\* The undo button (lines 743-745): the last revealed card is hidden, or a
\* notice when none is.
Undo(p) ==
    /\ FlipSectionShown(p)
    /\ LET reveal == session[p].reveal_index
       IN IF reveal >= 0
          THEN /\ Handler(p, "h_undo")
               /\ session' = [session EXCEPT ![p].reveal_index = reveal - 1]
          ELSE PageTop(p) /\ UNCHANGED vars

\* Mutant of UndoClear: the reading is kept when a card is hidden again.
UndoClearKeepsReading(p) ==
    /\ Handled(p, "h_undo")
    /\ session' = [session EXCEPT ![p].stage = "draw"]

\* The undo button (lines 746-749): the reading is cleared.
UndoClear(p) ==
    /\ Handled(p, "h_undo")
    /\ session' = [session EXCEPT ![p].reading = "None",
                                  ![p].reading_is_deep = FALSE,
                                  ![p].stage = "draw"]

\* The redraw button (lines 753-755): the cards are dropped.
Redraw(p) ==
    /\ FlipSectionShown(p)
    /\ Handler(p, "h_redraw")
    /\ session' = [session EXCEPT ![p].drawn_cards = 0,
                                  ![p].reveal_index = -1]

\* The redraw button (lines 756-759): the reading is cleared, back to the
\* follow-up stage.
RedrawClear(p) ==
    /\ Handled(p, "h_redraw")
    /\ session' = [session EXCEPT ![p].reading = "None",
                                  ![p].reading_is_deep = FALSE,
                                  ![p].stage = "followup"]

\* if reveal >= 2 and st.session_state["reading"] is None, inside the flip
\* section: the run executes the generate step.
GenerateStepRuns(p) ==
    /\ FlipSectionShown(p)
    /\ session[p].reveal_index >= 2
    /\ session[p].reading = "None"

\* The page shows the reading (lines 833-906): a reading that is not a JSON
\* object has no .get, so showing it raises AttributeError at line 843 and
\* the run ends there.
ReadingShown(p) == session[p].reading \in {"data", "raw", "error"}

\* The upgrade button is inside "if reading is not None", below the reading,
\* and is shown while not is_deep (and, tested by UpgStart,
\* get_deep_credits(uid) > 0).
UpgradeOffered(p) ==
    /\ ReadingShown(p)
    /\ ~session[p].reading_is_deep

\* What a run of the generate step or of the upgrade stores in the session
\* when it ends (lines 815-830 and 926-939); nothing while it is going on.
\* The generate step assigns its local reading_is_deep after the model call
\* and the ledger call (lines 803, 807): when one of them raises, line 815
\* stores the failure reading and line 816 raises NameError, so
\* reading_is_deep and stage stay as they were.  When only the repair call
\* of line 809 raises, reading_is_deep is bound and the step goes on.
StoreReading(p) ==
    LET s == session[p]
        ret == call'[p].ret
        msg == call'[p].msg
        reading_is_deep == call[p].want_deep
    IN session' = [session EXCEPT ![p] =
          IF pc'[p] # "idle"
          THEN s
          ELSE IF call[p].op = "generate_reading"
          THEN CASE ret = "reading" ->
                       [s EXCEPT !.reading = msg,
                                 !.reading_is_deep = reading_is_deep,
                                 !.stage = "reading"]
                 [] ret = "failed" /\ msg = "repair" ->
                       [s EXCEPT !.reading = "error",
                                 !.reading_is_deep = reading_is_deep,
                                 !.stage = "reading"]
                 [] ret = "failed" /\ msg # "repair" ->
                       [s EXCEPT !.reading = "error"]
                 [] OTHER -> s
          ELSE IF ret = "reading"
               THEN [s EXCEPT !.reading = msg, !.reading_is_deep = TRUE]
               ELSE s]

\* ---------------------------------------------------------- specifications
RECURSIVE SumOver(_, _)
SumOver(f, S) ==
    IF S = {} THEN 0
    ELSE LET x == CHOOSE y \in S : TRUE IN f[x] + SumOver(f, S \ {x})

TotalUsed == SumOver([u \in Uids |-> SumOver(incSum[u], Days)], Uids)
TotalGranted == SumOver(granted, Uids)

\* What the calls that are inside one of the steps pcs are about to add.
Pending(pcs) ==
    SumOver([p \in Procs |-> IF pc[p] \in pcs THEN call[p].n ELSE 0], Procs)

\* The requests the model starts are bounded: a call that adds free uses
\* starts only while at most MaxUsed have been added or are being added in
\* all, one that adds credits only while at most MaxCredits have been
\* granted or are being granted in all.
IncStart(p, u, n) ==
    /\ TotalUsed + Pending({"inc_wait", "inc_commit"}) + n <= MaxUsed
    /\ IncFreeUsedCall(p, u, n)

GrantStart(p, u, n) ==
    /\ TotalGranted + Pending({"add_wait", "add_commit"}) + n <= MaxCredits
    /\ AddDeepCreditsNow(p, u, n)

VerifyPcs ==
    {"v_retrieve", "v_add", "v_add_wait", "v_add_commit",
     "v_mark", "v_mark_wait", "v_mark_commit"}

VerifyStart(p, u, s) ==
    /\ TotalGranted + Cardinality({q \in Procs : pc[q] \in VerifyPcs})
          < MaxCredits
    /\ VerifyCheck(p, u, s)

FreeNext ==
    \/ AdvanceDay
    \/ \E p \in Procs, u \in Uids : GetFreeUsed(p, u)
    \/ \E p \in Procs, u \in Uids : CanUseFree(p, u)
    \/ \E p \in Procs, u \in Uids, n \in Amounts : IncStart(p, u, n)
    \/ \E p \in Procs : IncFreeUsedExecute(p)
    \/ \E p \in Procs : IncFreeUsedCommit(p)
    \/ \E p \in Procs : Crash(p)

FreeSpec == Init /\ [][FreeNext]_vars

\* The credit functions called by concurrent threads: grants of any amount,
\* and consume_deep_credit(uid, 1) as the application calls it (lines 799,
\* 914).
CreditNext ==
    \/ Tick
    \/ \E p \in Procs, u \in Uids : GetDeepCredits(p, u)
    \/ \E p \in Procs, u \in Uids, n \in Amounts : GrantStart(p, u, n)
    \/ \E p \in Procs : AddDeepCreditsExecute(p)
    \/ \E p \in Procs : AddDeepCreditsCommit(p)
    \/ \E p \in Procs, u \in Uids : ConsumeSelect(p, u, 1)
    \/ \E p \in Procs : ConsumeNow(p)
    \/ \E p \in Procs : ConsumeUpdate(p)
    \/ \E p \in Procs : ConsumeCommit(p)
    \/ \E p \in Procs : Crash(p)

CreditSpec == Init /\ [][CreditNext]_vars

PayNext ==
    \/ Tick
    \/ \E u \in Uids : CreateCheckoutSession(u)
    \/ \E s \in Sessions : PayComplete(s)
    \/ \E p \in Procs, u \in Uids, s \in Sessions \cup {NoSid} : VerifyStart(p, u, s)
    \/ \E p \in Procs : VerifyRetrieveRaises(p)
    \/ \E p \in Procs : VerifyRetrieve(p)
    \/ \E p \in Procs : VerifyAddNow(p)
    \/ \E p \in Procs : VerifyAddExecute(p)
    \/ \E p \in Procs : VerifyAddCommit(p)
    \/ \E p \in Procs : VerifyMarkNow(p)
    \/ \E p \in Procs : VerifyMarkExecute(p)
    \/ \E p \in Procs : VerifyMarkCommit(p)
    \/ \E p \in Procs : Crash(p)

PaySpec == Init /\ [][PayNext]_vars

\* Calls made one after the other: a thread steps only while every other
\* thread is outside a call; nothing crashes.
Alone(p) == \A q \in Procs \ {p} : Idle(q)

CreditSeqNext ==
    \/ Tick
    \/ \E p \in Procs, u \in Uids : Alone(p) /\ GetDeepCredits(p, u)
    \/ \E p \in Procs, u \in Uids, n \in Amounts : Alone(p) /\ GrantStart(p, u, n)
    \/ \E p \in Procs : AddDeepCreditsExecute(p)
    \/ \E p \in Procs : AddDeepCreditsCommit(p)
    \/ \E p \in Procs, u \in Uids, n \in Amounts : Alone(p) /\ ConsumeSelect(p, u, n)
    \/ \E p \in Procs : ConsumeNow(p)
    \/ \E p \in Procs : ConsumeUpdate(p)
    \/ \E p \in Procs : ConsumeCommit(p)

CreditSeqSpec == Init /\ [][CreditSeqNext]_vars

PaySeqNext ==
    \/ Tick
    \/ \E u \in Uids : CreateCheckoutSession(u)
    \/ \E s \in Sessions : PayComplete(s)
    \/ \E p \in Procs, u \in Uids, s \in Sessions \cup {NoSid} :
          Alone(p) /\ VerifyStart(p, u, s)
    \/ \E p \in Procs : VerifyRetrieveRaises(p)
    \/ \E p \in Procs : VerifyRetrieve(p)
    \/ \E p \in Procs : VerifyAddNow(p)
    \/ \E p \in Procs : VerifyAddExecute(p)
    \/ \E p \in Procs : VerifyAddCommit(p)
    \/ \E p \in Procs : VerifyMarkNow(p)
    \/ \E p \in Procs : VerifyMarkExecute(p)
    \/ \E p \in Procs : VerifyMarkCommit(p)

PaySeqSpec == Init /\ [][PaySeqNext]_vars

\* The success callback under retries.  The page of the identity that paid
\* submits the session (lines 585-588), from any tab, again and again;
\* threads crash and lookups fail at most MaxCrashes times in all; a thread
\* inside a call keeps running, and a write that waits for the lock gets it.
Resubmit(s) ==
    \E p \in Procs :
       /\ stripe[s].status = "paid"
       /\ VerifyCheck(p, stripe[s].owner, s)

PayLiveNext ==
    \/ \E u \in Uids : CreateCheckoutSession(u)
    \/ \E s \in Sessions : PayComplete(s)
    \/ \E s \in Sessions : Resubmit(s)
    \/ \E p \in Procs : CountedRetrieveRaises(p)
    \/ \E p \in Procs : VerifyRetrieve(p)
    \/ \E p \in Procs : VerifyAddNow(p)
    \/ \E p \in Procs : VerifyAddExecute(p)
    \/ \E p \in Procs : VerifyAddCommit(p)
    \/ \E p \in Procs : VerifyMarkNow(p)
    \/ \E p \in Procs : VerifyMarkExecute(p)
    \/ \E p \in Procs : VerifyMarkCommit(p)
    \/ \E p \in Procs : CountedCrash(p)

PayFairness ==
    /\ \A s \in Sessions : SF_vars(Resubmit(s))
    /\ \A p \in Procs :
          /\ WF_vars(VerifyRetrieve(p))
          /\ WF_vars(VerifyAddNow(p))
          /\ SF_vars(VerifyAddExecute(p))
          /\ WF_vars(VerifyAddCommit(p))
          /\ WF_vars(VerifyMarkNow(p))
          /\ SF_vars(VerifyMarkExecute(p))
          /\ WF_vars(VerifyMarkCommit(p))

PayLiveSpec == Init /\ [][PayLiveNext]_vars /\ PayFairness

\* The two functions on stripe_sessions, called directly by concurrent
\* threads with any session id and identity.
MarkNext ==
    \/ Tick
    \/ \E p \in Procs, s \in Sessions : StripeSessionAlreadyProcessed(p, s)
    \/ \E p \in Procs, s \in Sessions, u \in Uids : MarkNow(p, s, u)
    \/ \E p \in Procs : MarkExecute(p)
    \/ \E p \in Procs : MarkCommit(p)
    \/ \E p \in Procs : Crash(p)

MarkSpec == Init /\ [][MarkNext]_vars

\* The writing ledger functions called by concurrent threads over a store
\* that can fail at any statement of any ledger function.  A call that adds
\* something (a free use, a credit, a session row) starts only while fewer
\* than MaxN additions have been committed or are waiting to be made in all.
TotalWrites ==
    TotalUsed + TotalGranted + Cardinality(db.stripe_sessions)
    + Cardinality({p \in Procs : pc[p] \in FirstStatementPcs})

FaultNext ==
    \/ \E p \in Procs, u \in Uids :
          TotalWrites < MaxN /\ IncFreeUsedCall(p, u, 1)
    \/ \E p \in Procs : IncFreeUsedExecute(p)
    \/ \E p \in Procs : IncFreeUsedCommit(p)
    \/ \E p \in Procs, u \in Uids :
          TotalWrites < MaxN /\ AddDeepCreditsNow(p, u, 1)
    \/ \E p \in Procs : AddDeepCreditsExecute(p)
    \/ \E p \in Procs : AddDeepCreditsCommit(p)
    \/ \E p \in Procs, u \in Uids : ConsumeSelect(p, u, 1)
    \/ \E p \in Procs : ConsumeNow(p)
    \/ \E p \in Procs : ConsumeUpdate(p)
    \/ \E p \in Procs : ConsumeCommit(p)
    \/ \E p \in Procs, s \in Sessions, u \in Uids :
          TotalWrites < MaxN /\ MarkNow(p, s, u)
    \/ \E p \in Procs : MarkExecute(p)
    \/ \E p \in Procs : MarkCommit(p)
    \/ \E p \in Procs : StorageError(p)
    \/ \E p \in Procs, op \in LedgerOps : CallRaises(p, op)

FaultSpec == Init /\ [][FaultNext]_vars

\* The ledger calls the application makes, from concurrent requests of any
\* identity: inc_free_used(uid, 1) and consume_deep_credit(uid, 1) of the
\* reading flow (lines 799, 806, 914) and the Stripe success callback with
\* its add_deep_credits(uid, 1) (lines 585-588, 286); any of them can end
\* by an exception of the store, the callback by a failed lookup.  A call
\* that adds a free use and a callback start only while fewer than MaxN free
\* uses and credits have been added or are being added in all.
AppWrites ==
    TotalUsed + Pending({"inc_wait", "inc_commit"})
    + TotalGranted + Cardinality({q \in Procs : pc[q] \in VerifyPcs})

AppIncStart(p, u) ==
    /\ AppWrites < MaxN
    /\ IncFreeUsedCall(p, u, 1)

AppVerifyStart(p, u, s) ==
    /\ AppWrites < MaxN
    /\ VerifyCheck(p, u, s)

AppNext ==
    \/ \E u \in Uids : CreateCheckoutSession(u)
    \/ \E s \in Sessions : PayComplete(s)
    \/ \E p \in Procs, u \in Uids : AppIncStart(p, u)
    \/ \E p \in Procs : IncFreeUsedExecute(p)
    \/ \E p \in Procs : IncFreeUsedCommit(p)
    \/ \E p \in Procs, u \in Uids : ConsumeSelect(p, u, 1)
    \/ \E p \in Procs : ConsumeNow(p)
    \/ \E p \in Procs : ConsumeUpdate(p)
    \/ \E p \in Procs : ConsumeCommit(p)
    \/ \E p \in Procs, u \in Uids, s \in Sessions : AppVerifyStart(p, u, s)
    \/ \E p \in Procs : VerifyRetrieveRaises(p)
    \/ \E p \in Procs : VerifyRetrieve(p)
    \/ \E p \in Procs : VerifyAddNow(p)
    \/ \E p \in Procs : VerifyAddExecute(p)
    \/ \E p \in Procs : VerifyAddCommit(p)
    \/ \E p \in Procs : VerifyMarkNow(p)
    \/ \E p \in Procs : VerifyMarkExecute(p)
    \/ \E p \in Procs : VerifyMarkCommit(p)
    \/ \E p \in Procs : StorageError(p)
    \/ \E p \in Procs : VerifyStorageError(p)

AppSpec == Init /\ [][AppNext]_vars

\* The reading flow run by concurrent tabs of any identity, with credits
\* granted meanwhile.  A generate step starts only while fewer than MaxN
\* free readings have been generated in all, a grant only while fewer than
\* MaxN credits have been granted or are being granted.
TotalFreeReadings ==
    SumOver([u \in Uids |-> SumOver(freeReadings[u], Days)], Uids)

FlowGenStart(p, u) ==
    TotalFreeReadings < MaxN /\ GenStart(p, u)

FlowGrantStart(p, u) ==
    /\ TotalGranted + Pending({"add_wait", "add_commit"}) < MaxN
    /\ AddDeepCreditsNow(p, u, 1)

FlowNext ==
    \/ \E p \in Procs, u \in Uids : FlowGrantStart(p, u) /\ UNCHANGED session
    \/ \E p \in Procs : AddDeepCreditsExecute(p) /\ UNCHANGED session
    \/ \E p \in Procs : AddDeepCreditsCommit(p) /\ UNCHANGED session
    \/ \E p \in Procs, u \in Uids : FlowGenStart(p, u) /\ UNCHANGED session
    \/ \E p \in Procs : GenCanUseFree(p) /\ UNCHANGED session
    \/ \E p \in Procs : GenAiFreeReturns(p) /\ UNCHANGED session
    \/ \E p \in Procs : GenAiFreeRaises(p) /\ UNCHANGED session
    \/ \E p \in Procs : GenIncCall(p) /\ UNCHANGED session
    \/ \E p \in Procs : GenIncExecute(p) /\ UNCHANGED session
    \/ \E p \in Procs : GenIncCommit(p) /\ UNCHANGED session
    \/ \E p \in Procs, u \in Uids : UpgStart(p, u) /\ UNCHANGED session
    \/ \E p \in Procs : FlowConsumeSelect(p) /\ UNCHANGED session
    \/ \E p \in Procs : FlowConsumeNow(p) /\ UNCHANGED session
    \/ \E p \in Procs : FlowConsumeUpdate(p) /\ UNCHANGED session
    \/ \E p \in Procs : FlowConsumeCommit(p) /\ UNCHANGED session
    \/ \E p \in Procs : FlowAiDeepReturns(p) /\ UNCHANGED session
    \/ \E p \in Procs : FlowAiDeepRaises(p) /\ UNCHANGED session
    \/ \E p \in Procs : FlowParse(p) /\ UNCHANGED session
    \/ \E p \in Procs : FlowRepairRaises(p) /\ UNCHANGED session
    \/ \E p \in Procs : FlowLedgerRaises(p) /\ UNCHANGED session
    \/ \E p \in Procs : StorageError(p) /\ UNCHANGED session

FlowSpec == Init /\ [][FlowNext]_vars

\* The page of one tab, run after run: the success callback, the pay
\* button, the buttons of the flow, the generate step and the upgrade as
\* the session state lets them run, while another request of the same
\* identity (a second tab, whose session is left out) runs the same flow.
\* A grant of the callback ends by an exception only while fewer than MaxN
\* credits have been granted.
Tabs == {"p1"}

SessionGenStart(p) ==
    /\ p \in Tabs => (PageTop(p) \/ AfterPay(p)) /\ GenerateStepRuns(p)
    /\ FlowGenStart(p, TabUid(p))
    /\ UNCHANGED session

SessionUpgStart(p) ==
    /\ p \in Tabs => PageTop(p) /\ UpgradeOffered(p)
    /\ UpgStart(p, TabUid(p))
    /\ UNCHANGED session

RunStep(p) == IF p \in Tabs THEN StoreReading(p) ELSE UNCHANGED session

SessionVerifyStorageError(p) ==
    TotalGranted < MaxN /\ VerifyStorageError(p)

SessionNext ==
    \/ \E p \in Tabs, s \in Sessions : OpenSuccessLink(p, s)
    \/ \E p \in Tabs : RunStart(p)
    \/ \E p \in Tabs : VerifyRetrieveRaises(p)
    \/ \E p \in Tabs : VerifyRetrieve(p)
    \/ \E p \in Tabs : VerifyAddNow(p)
    \/ \E p \in Tabs : VerifyAddExecute(p)
    \/ \E p \in Tabs : VerifyAddCommit(p)
    \/ \E p \in Tabs : VerifyMarkNow(p)
    \/ \E p \in Tabs : VerifyMarkExecute(p)
    \/ \E p \in Tabs : VerifyMarkCommit(p)
    \/ \E p \in Tabs : SessionVerifyStorageError(p)
    \/ \E p \in Tabs : SessionPay(p)
    \/ \E s \in Sessions : PayComplete(s)
    \/ \E p \in Tabs : NextStep(p)
    \/ \E p \in Tabs : NextStepCards(p)
    \/ \E p \in Tabs : Restart(p)
    \/ \E p \in Tabs : RestartCards(p)
    \/ \E p \in Tabs : DrawCards(p)
    \/ \E p \in Tabs : DrawCardsClear(p)
    \/ \E p \in Tabs : Flip(p)
    \/ \E p \in Tabs : FlipClear(p)
    \/ \E p \in Tabs : Undo(p)
    \/ \E p \in Tabs : UndoClear(p)
    \/ \E p \in Tabs : Redraw(p)
    \/ \E p \in Tabs : RedrawClear(p)
    \/ \E p \in Procs : SessionGenStart(p)
    \/ \E p \in Procs : GenCanUseFree(p) /\ RunStep(p)
    \/ \E p \in Procs : GenAiFreeReturns(p) /\ RunStep(p)
    \/ \E p \in Procs : GenAiFreeRaises(p) /\ RunStep(p)
    \/ \E p \in Procs : GenIncCall(p) /\ RunStep(p)
    \/ \E p \in Procs : GenIncExecute(p) /\ RunStep(p)
    \/ \E p \in Procs : GenIncCommit(p) /\ RunStep(p)
    \/ \E p \in Procs : SessionUpgStart(p)
    \/ \E p \in Procs : FlowConsumeSelect(p) /\ RunStep(p)
    \/ \E p \in Procs : FlowConsumeNow(p) /\ RunStep(p)
    \/ \E p \in Procs : FlowConsumeUpdate(p) /\ RunStep(p)
    \/ \E p \in Procs : FlowConsumeCommit(p) /\ RunStep(p)
    \/ \E p \in Procs : FlowAiDeepReturns(p) /\ RunStep(p)
    \/ \E p \in Procs : FlowAiDeepRaises(p) /\ RunStep(p)
    \/ \E p \in Procs : FlowParse(p) /\ RunStep(p)
    \/ \E p \in Procs : FlowRepairRaises(p) /\ RunStep(p)
    \/ \E p \in Procs : FlowLedgerRaises(p) /\ RunStep(p)

SessionSpec == Init /\ [][SessionNext]_vars

\* ------------------------------------------------------------------ claims
Quiet == \A p \in Procs : Idle(p)

ProcessedFor(u) == {r \in db.stripe_sessions : r.uid = u}

\* C1: no payment reference credits an identity more than once: for every
\* session id, at most one add_deep_credits is committed on its account,
\* whatever the interleaving of the verify_and_grant_from_session calls.
C1_AtMostOneGrantPerSession ==
    \A s \in Sessions : sessGrants[s] <= 1

\* C2: concurrent consume_deep_credit calls never over-draw: the credits
\* handed out by the calls that returned True never exceed the credits that
\* were granted (N calls of 1 against a balance of N-1 give N-1 successes).
C2_NoOverdrawByConcurrentConsumers ==
    \A u \in Uids : consumed[u] <= granted[u]

\* C3: the stored deep_credits balance of every identity is >= 0 in every
\* reachable state.
C3_BalanceNonNegative ==
    \A r \in db.user_credits : r.deep_credits >= 0

\* A call that finds the session id in stripe_sessions returns
\* (True, already processed) and writes nothing.
C4_SecondCallChangesNothing ==
    \A p \in Procs, u \in Uids, s \in Sessions :
       (stripe_session_already_processed(s) /\ VerifyCheck(p, u, s))
          => /\ call'[p].ret = "True"
             /\ call'[p].msg = "already"
             /\ db' = db
             /\ txn' = txn

\* A session is granted at most once, a processed one exactly once, and
\* every balance is the number of sessions granted to that identity.
C4_GrantedOnce ==
    /\ \A s \in Sessions :
          /\ sessGrants[s] <= 1
          /\ stripe_session_already_processed(s) => sessGrants[s] = 1
    /\ \A u \in Uids :
          get_deep_credits(u) =
             Cardinality({s \in Sessions :
                            sessGrants[s] >= 1 /\ stripe[s].owner = u})

\* The call that finds a paid, unprocessed session of its identity returns
\* (True, granted) with the session recorded and granted once.
C4_FirstCallGrants ==
    \A p \in Procs :
       VerifyMarkCommit(p)
          => /\ call'[p].ret = "True"
             /\ call'[p].msg = "granted"
             /\ stripe[call[p].sid].status = "paid"
             /\ stripe[call[p].sid].owner = call[p].uid
             /\ sessGrants[call[p].sid] = 1
             /\ SessionRows(db'.stripe_sessions, call[p].sid) # {}

\* C4: verify_and_grant_from_session called again, after an earlier call
\* for the same paid session has returned, returns (True, already processed)
\* and changes nothing; with the calls made one after the other a session
\* is granted at most once and a processed session exactly once, and every
\* balance is the number of sessions granted to that identity.
C4_SequentialIdempotence ==
    /\ [](C4_GrantedOnce)
    /\ [][C4_FirstCallGrants /\ C4_SecondCallChangesNothing]_vars

C4_Witness ==
    \E p \in Procs, s \in Sessions :
       /\ call[p].op = "verify_and_grant_from_session"
       /\ call[p].ret = "True" /\ call[p].msg = "already"
       /\ sessGrants[s] = 1
       /\ get_deep_credits(stripe[s].owner) = 1

\* C5: a paid session that is submitted again after every crash or failure
\* is eventually recorded in stripe_sessions, with its credit added to the
\* balance of the identity it belongs to.
C5_PaidEventuallyReflected ==
    \A s \in Sessions :
       (stripe[s].status = "paid")
          ~> (/\ stripe_session_already_processed(s)
              /\ sessGrants[s] >= 1
              /\ get_deep_credits(stripe[s].owner) >= 1)

C5_Witness ==
    \E s \in Sessions :
       /\ crashes >= 1
       /\ stripe_session_already_processed(s)
       /\ get_deep_credits(stripe[s].owner) >= 1

\* C6: processed implies granted: every session id recorded in
\* stripe_sessions has had its add_deep_credits committed, and every
\* identity's balance covers the sessions recorded for it, also after a
\* crash between the grant and the mark.
C6_ProcessedImpliesGranted ==
    /\ \A r \in db.stripe_sessions : sessGrants[r.session_id] >= 1
    /\ \A u \in Uids : get_deep_credits(u) >= Cardinality(ProcessedFor(u))

C6_Witness ==
    \E p \in Procs, s \in Sessions :
       /\ call[p].op = "verify_and_grant_from_session"
       /\ call[p].ret = "crashed"
       /\ stripe_session_already_processed(s)
       /\ sessGrants[s] = 2

\* The test of consume_deep_credit: False and no write below n, else on to
\* the UPDATE.
C7_Select ==
    \A p \in Procs, u \in Uids, n \in Amounts :
       ConsumeSelect(p, u, n)
          => IF get_deep_credits(u) < n
             THEN /\ pc'[p] = "idle"
                  /\ call'[p].ret = "False"
                  /\ db' = db /\ txn' = txn
             ELSE pc'[p] = "consume_update"

\* The commit of consume_deep_credit returns True and lowers the balance of
\* its uid by exactly n; the other rows and tables stay.
C7_Commit ==
    \A p \in Procs :
       ConsumeCommit(p)
          => /\ call'[p].ret = "True"
             /\ DeepCreditsOf(db'.user_credits, call[p].uid) =
                   get_deep_credits(call[p].uid) - call[p].n
             /\ \A r \in db.user_credits :
                   r.uid # call[p].uid => r \in db'.user_credits
             /\ db'.usage_daily = db.usage_daily
             /\ db'.stripe_sessions = db.stripe_sessions

\* The balance is still >= n while the call is past its test.
C7_Sufficient ==
    \A p \in Procs :
       pc[p] \in {"consume_update", "consume_wait", "consume_commit"}
          => get_deep_credits(call[p].uid) >= call[p].n

\* C7: consume_deep_credit(u, n) with no other call running: when the
\* balance is below n (or u has no row) it returns False and leaves the
\* table, updated_at included, as it was; otherwise it goes on to the
\* UPDATE, the balance is still >= n when the UPDATE runs, and the commit
\* lowers u's balance by exactly n, leaves the other rows alone and returns
\* True.
C7_SequentialConsume ==
    [](C7_Sufficient) /\ [][C7_Select /\ C7_Commit]_vars

C7_Witness ==
    \E p \in Procs, q \in Procs, u \in Uids :
       /\ call[p].op = "consume_deep_credit" /\ call[p].ret = "False"
       /\ call[q].op = "consume_deep_credit" /\ call[q].ret = "True"
       /\ get_deep_credits(u) = 1

\* C8: once every call has returned, each identity's balance is the sum of
\* the grants minus the sum of the consumes that returned True, and the
\* outcome is that of a serial order of the calls; in a serial order every
\* consume that returns True finds its n credits, so the balance is >= 0.
C8_LinearizableCredits ==
    Quiet =>
       \A u \in Uids :
          /\ get_deep_credits(u) = granted[u] - consumed[u]
          /\ get_deep_credits(u) >= 0

\* C9: concurrent inc_free_used calls lose no update: for every (uid, day)
\* the table holds at most one row, and its count (0 when there is no row)
\* is the sum of the amounts of the committed calls; a row exists as soon
\* as one call has committed.
C9_NoLostFreeUse ==
    \A u \in Uids, d \in Days :
       /\ Cardinality(UsageRows(db.usage_daily, u, d)) <= 1
       /\ FreeUsedOn(db.usage_daily, u, d) = incSum[u][d]
       /\ incSum[u][d] > 0 => Cardinality(UsageRows(db.usage_daily, u, d)) = 1

C9_Witness ==
    \E p \in Procs, q \in Procs :
       /\ pc[p] = "inc_commit"
       /\ FreeUsedOn(db.usage_daily, call[p].uid, call[p].day) >= 1
       /\ call[q].op = "inc_free_used" /\ call[q].ret = "None"
       /\ \E u \in Uids : UsageRows(db.usage_daily, u, today) = {}

\* What a get_free_used call returns and leaves unchanged.
C10_ReturnsSum ==
    \A p \in Procs, u \in Uids :
       GetFreeUsed(p, u)
          => /\ call'[p].val = incSum[u][today]
             /\ UsageRows(db.usage_daily, u, today) = {} => call'[p].val = 0
             /\ db' = db /\ txn' = txn

\* C10: get_free_used(u) returns 0 while u has no row for the current day
\* and otherwise the sum of the amounts added for u on that day, and the
\* call changes nothing in the database.
C10_GetFreeUsed ==
    [](\A u \in Uids : get_free_used(u) = incSum[u][today])
       /\ [][C10_ReturnsSum]_vars

C10_Witness ==
    \E p \in Procs, u \in Uids :
       /\ call[p].op = "get_free_used"
       /\ call[p].val = MaxN + 1
       /\ get_free_used(u) = 0

\* What a can_use_free call returns and leaves unchanged.
C11_Return ==
    \A p \in Procs, u \in Uids :
       CanUseFree(p, u)
          => /\ call'[p].ret \in {"True", "False"}
             /\ call'[p].ret = "True"
                   <=> FreeUsedOn(db.usage_daily, u, today) < FREE_PER_DAY
             /\ db' = db /\ txn' = txn

\* One inc_free_used(u, 1) committed on the day it was made for turns
\* can_use_free(u) from True to False.
C11_Flip ==
    \A p \in Procs, u \in Uids :
       (/\ IncFreeUsedCommit(p)
        /\ call[p].uid = u /\ call[p].n = 1 /\ call[p].day = today
        /\ can_use_free(u))
          => ~can_use_free(u)'

\* C11: can_use_free(u) is True exactly when the count of u for the current
\* day is below FREE_PER_DAY (1): True for an identity with no use today,
\* False from the commit of one inc_free_used(u, 1) on, for as long as that
\* day lasts; the call returns that truth value and writes nothing.
C11_CanUseFree ==
    /\ [](\A u \in Uids : can_use_free(u) <=> incSum[u][today] < FREE_PER_DAY)
    /\ [][C11_Return /\ C11_Flip]_vars

C11_Witness ==
    \E p \in Procs, q \in Procs, u \in Uids, v \in Uids :
       /\ call[p].op = "can_use_free" /\ call[p].ret = "False"
       /\ call[q].op = "inc_free_used" /\ call[q].ret = "None"
       /\ get_free_used(u) = 1 /\ ~can_use_free(u)
       /\ UsageRows(db.usage_daily, v, today) = {} /\ can_use_free(v)

\* What a get_deep_credits call returns and leaves unchanged.
C12_Get ==
    \A p \in Procs, u \in Uids :
       (call'[p].op = "get_deep_credits" /\ GetDeepCredits(p, u))
          => /\ call'[p].val = granted[u] - consumed[u]
             /\ CreditRows(db.user_credits, u) = {} => call'[p].val = 0
             /\ db' = db /\ txn' = txn

\* The commit of add_deep_credits(u, n): u has one row afterwards, holding
\* n when there was none and the old balance plus n otherwise; the rows of
\* the other identities and the other tables stay.
C12_Add ==
    \A p \in Procs, u \in Uids :
       (AddDeepCreditsCommit(p) /\ call[p].uid = u)
          => /\ Cardinality(CreditRows(db'.user_credits, u)) = 1
             /\ CreditRows(db.user_credits, u) = {}
                   => DeepCreditsOf(db'.user_credits, u) = call[p].n
             /\ DeepCreditsOf(db'.user_credits, u) =
                   DeepCreditsOf(db.user_credits, u) + call[p].n
             /\ \A r \in db.user_credits : r.uid # u => r \in db'.user_credits
             /\ db'.usage_daily = db.usage_daily
             /\ db'.stripe_sessions = db.stripe_sessions

\* C12: get_deep_credits(u) is 0 while u has no row; add_deep_credits(u, n)
\* creates the row with balance n or adds n to the balance it finds, so the
\* balance is the sum of the committed grants (less what consume calls took):
\* every call grants again, none is absorbed.
C12_GrantsAddUp ==
    /\ [](\A u \in Uids :
            /\ get_deep_credits(u) = granted[u] - consumed[u]
            /\ CreditRows(db.user_credits, u) = {} => get_deep_credits(u) = 0
            /\ Cardinality(CreditRows(db.user_credits, u)) <= 1)
    /\ [][C12_Get /\ C12_Add]_vars

C12_Witness ==
    \E p \in Procs, q \in Procs, u \in Uids, v \in Uids :
       /\ p # q
       /\ call[p].op = "add_deep_credits" /\ call[p].ret = "None"
       /\ call[q].op = "add_deep_credits" /\ call[q].ret = "None"
       /\ consumed[u] = 0 /\ get_deep_credits(u) = MaxN + 1
       /\ CreditRows(db.user_credits, v) = {} /\ get_deep_credits(v) = 0

\* What the database image d stores for identity u: its usage_daily rows
\* (day and count) and its balance, with whether it has a user_credits row.
C13_StoredFor(d, u) ==
    <<{r \in d.usage_daily : r.uid = u},
      CreditRows(d.user_credits, u) # {},
      DeepCreditsOf(d.user_credits, u)>>

\* C13: cross-identity isolation: the free-usage counts and the credit
\* balance stored for an identity B change only in the commit of a call made
\* for B; no step of inc_free_used, add_deep_credits, consume_deep_credit or
\* verify_and_grant_from_session running for another identity A changes them.
C13_CrossIdentityIsolation ==
    [][\A B \in Uids :
          (db' # db /\ C13_StoredFor(db', B) # C13_StoredFor(db, B))
             => \E p \in Procs : txn.owner = p /\ call[p].uid = B]_vars

C13_Witness ==
    \E p \in Procs, q \in Procs, A \in Uids, B \in Uids :
       /\ A # B
       /\ call[p].op = "consume_deep_credit" /\ call[p].ret = "True"
       /\ call[q].op = "inc_free_used" /\ call[q].ret = "None"
       /\ granted[A] = 1 /\ get_deep_credits(A) = 0 /\ get_free_used(A) = 0
       /\ get_free_used(B) = 1 /\ CreditRows(db.user_credits, B) = {}

\* The commit of an inc_free_used made for u on day d leaves the rows of u
\* for every other day as they were.
C14_OtherDays ==
    \A p \in Procs, u \in Uids :
       (IncFreeUsedCommit(p) /\ call[p].uid = u)
          => \A d \in Days \ {call[p].day} :
                UsageRows(db'.usage_daily, u, d) = UsageRows(db.usage_daily, u, d)

\* When the calendar day advances every identity reads 0 and may use free.
C14_NewDay ==
    AdvanceDay
       => \A u \in Uids : get_free_used(u)' = 0 /\ can_use_free(u)'

\* C14: day boundary: inc_free_used made for u on day d changes the count of
\* u for day d only; no row is ever written for a day that has not begun, so
\* when the day advances get_free_used(u) reads 0 and can_use_free(u) is True
\* whatever the count of the day before.
C14_DayBoundary ==
    /\ [](\A r \in db.usage_daily : r.day <= today)
    /\ [][C14_OtherDays /\ C14_NewDay]_vars

C14_Witness ==
    \E p \in Procs, u \in Uids :
       /\ today = 2
       /\ call[p].op = "inc_free_used" /\ call[p].ret = "None"
       /\ FreeUsedOn(db.usage_daily, u, 1) = 2
       /\ get_free_used(u) = 1

\* A call that starts when the session id has a row returns at once with
\* (True, already processed): it does not reach the retrieve or grant step.
C15_NoReentry ==
    \A p \in Procs, u \in Uids, s \in Sessions :
       (SessionRows(db.stripe_sessions, s) # {} /\ VerifyCheck(p, u, s))
          => /\ pc'[p] = "idle"
             /\ call'[p].ret = "True" /\ call'[p].msg = "already"

\* C15: a session id recorded as processed stays processed: no step removes
\* or alters a stripe_sessions row, stripe_session_already_processed never
\* goes from True back to False, and a verify_and_grant_from_session call
\* that starts after the id was recorded never enters the grant step.
C15_ProcessedStaysProcessed ==
    [][/\ \A r \in db.stripe_sessions : r \in db'.stripe_sessions
       /\ \A s \in Sessions :
             stripe_session_already_processed(s)
                => stripe_session_already_processed(s)'
       /\ C15_NoReentry]_vars

C15_Witness ==
    \E p \in Procs, q \in Procs, s \in Sessions :
       /\ call[p].op = "verify_and_grant_from_session"
       /\ call[p].ret = "True" /\ call[p].msg = "already"
       /\ stripe_session_already_processed(s)
       /\ pc[q] = "v_add" /\ call[q].sid = s

\* The commit of a mark_stripe_session_processed whose session id has a row
\* returns normally and leaves the database as it was.
C16_Noop ==
    \A p \in Procs :
       (MarkCommit(p) /\ SessionRows(db.stripe_sessions, call[p].sid) # {})
          => /\ db' = db
             /\ call'[p].ret = "None"

\* C16: mark_stripe_session_processed on a session id that has a row is a
\* no-op: the call returns normally, and the row keeps the identity and the
\* processed_at of the first insertion whichever identity the later call
\* names; a session id never has two rows.
C16_MarkExistingIsNoop ==
    /\ [](\A s \in Sessions :
            Cardinality(SessionRows(db.stripe_sessions, s)) <= 1)
    /\ [][/\ C16_Noop
          /\ \A r \in db.stripe_sessions : r \in db'.stripe_sessions]_vars

C16_Witness ==
    \E p \in Procs, q \in Procs, r \in db.stripe_sessions :
       /\ call[p].op = "mark_stripe_session_processed"
       /\ call[p].ret = "None"
       /\ pc[q] = "mark_commit"
       /\ call[q].sid = r.session_id
       /\ call[q].uid # r.uid
       /\ r.processed_at < clock
       /\ txn.owner = q /\ txn.image = db

\* C17: in the reading flow the ledger is charged only after the reading
\* has been generated: a run whose inc_free_used or consume_deep_credit has
\* committed is a run whose model call has returned, so a generation that
\* fails has charged neither the free quota nor a credit.
C17_ChargedOnlyAfterGeneration ==
    \A p \in Procs :
       (call[p].op \in {"generate_reading", "upgrade_to_deep"} /\ call[p].charged)
          => call[p].generated

\* A step that ends a call with the exception leaves the database as it
\* was and the thread without a transaction; a step that ends a call past
\* its first statement with a return value is the commit of its write.
C18_Raised ==
    \A p \in Procs :
       /\ (call'[p] # call[p] /\ call'[p].ret = "raised")
             => /\ db' = db
                /\ txn'.owner # p
                /\ <<incSum, granted, consumed>>' = <<incSum, granted, consumed>>
       /\ (pc[p] \in LedgerPcs \cup FirstStatementPcs
              /\ pc'[p] = "idle" /\ call'[p].ret # "raised")
             => /\ txn.owner = p
                /\ db' = txn.image

\* C18: no ledger operation swallows a storage error: a failure of the store
\* inside a ledger function leaves the function as an exception, never as a
\* return value such as False or 0, and applies nothing: what is stored is
\* exactly what the calls that returned normally wrote, and no transaction
\* outlives its call.
C18_StorageErrorsPropagate ==
    /\ [](/\ \A u \in Uids, d \in Days :
               FreeUsedOn(db.usage_daily, u, d) = incSum[u][d]
          /\ \A u \in Uids : get_deep_credits(u) = granted[u] - consumed[u]
          /\ \A p \in Procs : txn.owner = p => pc[p] \in LedgerPcs)
    /\ [][C18_Raised]_vars

C18_Witness ==
    \E p \in Procs, q \in Procs, u \in Uids :
       /\ call[p].op = "consume_deep_credit"
       /\ call[p].ret = "raised" /\ call[p].msg = "later_statement"
       /\ call[q].op = "inc_free_used"
       /\ call[q].ret = "raised" /\ call[q].msg = "later_statement"
       /\ granted[u] = 1 /\ get_deep_credits(u) = 1
       /\ db.usage_daily = {}

\* C19: the free-usage count of an identity for a day only ever increases:
\* every usage_daily row is still there after every step, with a count that
\* is at least what it was; a stored count is at least 1.
C19_FreeCountMonotone ==
    /\ [](\A r \in db.usage_daily : r.used >= 1)
    /\ [][\A r \in db.usage_daily :
             \E r2 \in db'.usage_daily :
                r2.uid = r.uid /\ r2.day = r.day /\ r2.used >= r.used]_vars

C19_Witness ==
    \E p \in Procs, q \in Procs, r \in db.usage_daily :
       /\ call[p].op = "inc_free_used" /\ call[p].ret = "crashed"
       /\ call[q].op = "inc_free_used" /\ call[q].ret = "None"
       /\ r.used = MaxUsed
       /\ today > r.day

\* C20: free tier limit end to end: for every identity and day the number
\* of free readings the reading flow has generated is at most FREE_PER_DAY,
\* also with several tabs of one uid in the generate-reading step at once.
C20_FreeTierLimit ==
    \A u \in Uids, d \in Days : freeReadings[u][d] <= FREE_PER_DAY

\* C21: a payment session is bound to the identity it was created for:
\* a verify_and_grant_from_session call is in its grant or mark step only
\* for the identity the session names, every stripe_sessions row holds that
\* identity, and each identity's credits are exactly the grants made for its
\* own sessions, so a session paid by A never credits B.
C21_SessionBoundToIdentity ==
    /\ \A p \in Procs :
          pc[p] \in VerifyPcs \ {"v_retrieve"}
             => /\ stripe[call[p].sid].owner = call[p].uid
                /\ stripe[call[p].sid].status = "paid"
    /\ \A r \in db.stripe_sessions : r.uid = stripe[r.session_id].owner
    /\ \A u \in Uids :
          /\ granted[u] =
                SumOver(sessGrants, {s \in Sessions : stripe[s].owner = u})
          /\ get_deep_credits(u) = granted[u]

C21_Witness ==
    \E p \in Procs, q \in Procs, s \in Sessions, A \in Uids, B \in Uids :
       /\ A # B
       /\ stripe[s].owner = A
       /\ \A r \in Sessions \ {s} : stripe[r].status = "absent"
       /\ call[p].op = "verify_and_grant_from_session"
       /\ call[p].ret = "False" /\ call[p].msg = "mismatch"
       /\ call[q].ret = "True" /\ call[q].msg = "granted"
       /\ get_deep_credits(A) = 1
       /\ get_deep_credits(B) = 0

\* C22: a verify_and_grant_from_session call that returns False (empty id,
\* failed lookup, session not paid, identity mismatch) changes nothing: the
\* step in which it returns leaves the database, the open transaction and
\* the grants as they were, and the call wrote nothing before it, so no
\* balance moved and no stripe_sessions row was inserted.
C22_ReturnsFalse(p) ==
    /\ call'[p].ret = "False"
    /\ call'[p] # call[p] \/ pc[p] # "idle"

C22_UnverifiedChangesNothing ==
    [][\A p \in Procs :
          C22_ReturnsFalse(p) =>
             /\ pc[p] \in {"idle", "v_retrieve"}
             /\ txn.owner # p
             /\ db' = db
             /\ txn' = txn
             /\ granted' = granted
             /\ sessGrants' = sessGrants]_vars

\* The only session there is was refused as not paid by one call and
\* credited by a later one.
C22_Witness ==
    \E p \in Procs, q \in Procs, s \in Sessions :
       /\ \A r \in Sessions \ {s} : stripe[r].status = "absent"
       /\ call[p].op = "verify_and_grant_from_session"
       /\ call[p].ret = "False" /\ call[p].msg = "unpaid"
       /\ call[q].ret = "True" /\ call[q].msg = "granted"
       /\ sessGrants[s] = 1
       /\ stripe_session_already_processed(s)

\* The generate step of a script run starts, moves, charges, ends.
C23_Starts(p) ==
    /\ pc[p] = "idle" /\ pc'[p] # "idle"
    /\ call'[p].op = "generate_reading"

C23_Moves(p) ==
    /\ call[p].op = "generate_reading"
    /\ pc[p] # "idle" /\ pc'[p] # pc[p]

C23_Charges(p) == C23_Moves(p) /\ call'[p].charged /\ ~call[p].charged

C23_Ends(p, ret) == C23_Moves(p) /\ pc'[p] = "idle" /\ call'[p].ret = ret

\* A step of the success callback that the script run executes above the
\* page, before its generate step.
C23_Callback(p) ==
    /\ call[p].op = "verify_and_grant_from_session"
    /\ pc[p] \in VerifyPcs

\* C23: the generate step (lines 784-830) runs with three cards revealed
\* and no reading, after the success callback of the same script run has
\* returned; it takes the deep path exactly when the balance it reads is
\* positive; with no credits and no free quota it shows the paywall, having
\* generated and written nothing; the step writes the ledger only in its
\* one charging step, which takes one credit on the deep path and adds one
\* free use on the free path; a step that ends with a reading has charged,
\* and its reading is stored as deep exactly on the deep path.  The other
\* ledger writes of a tab's script run are those of its success callback.
C23_GenerateStepCharges ==
    [][\A p \in Procs :
          /\ (db' # db /\ p \in Tabs /\ txn.owner = p) =>
                C23_Charges(p) \/ C23_Callback(p)
                   \/ (call[p].op = "upgrade_to_deep"
                         /\ call'[p].charged /\ ~call[p].charged)
          /\ C23_Starts(p) =>
                /\ p \in Tabs =>
                      /\ session[p].reveal_index = 2
                      /\ session[p].drawn_cards = 3
                      /\ session[p].reading = "None"
                      /\ PageTop(p) \/ AfterPay(p)
                /\ call'[p].want_deep <=> get_deep_credits(call'[p].uid) > 0
                /\ call'[p].n = 1
                /\ db' = db
          /\ (C23_Moves(p) /\ pc[p] = "g_can_free"
                /\ call'[p].ret # "error") =>
                /\ ~call[p].want_deep
                /\ ~can_use_free(call[p].uid) <=> C23_Ends(p, "paywall")
          /\ C23_Ends(p, "paywall") =>
                /\ ~call'[p].generated /\ ~call'[p].charged
                /\ db' = db /\ txn' = txn /\ txn.owner # p
                /\ p \in Tabs => session'[p] = session[p]
          /\ (C23_Moves(p) /\ ~C23_Charges(p)) =>
                /\ db' = db
                /\ consumed' = consumed /\ incSum' = incSum
          /\ C23_Charges(p) =>
                LET u == call[p].uid
                IN IF call[p].want_deep
                   THEN /\ consumed' = [consumed EXCEPT ![u] = @ + 1]
                        /\ incSum' = incSum
                   ELSE /\ incSum' = [incSum EXCEPT ![u][call[p].day] = @ + 1]
                        /\ consumed' = consumed
                        /\ call[p].generated
          /\ C23_Ends(p, "reading") =>
                /\ call'[p].generated /\ call'[p].charged
                /\ p \in Tabs =>
                      /\ session'[p].reading \in {"data", "other", "raw"}
                      /\ session'[p].reading_is_deep = call[p].want_deep]_vars

\* The tab's callback has granted the credit of its payment; the tab has
\* had a deep reading for that credit and a free reading for its one free
\* use, and with all three cards revealed again its generate step has shown
\* the paywall.
C23_Witness ==
    \E p \in Tabs :
       /\ call[p].op = "generate_reading" /\ call[p].ret = "paywall"
       /\ stripe_session_already_processed(SuccessSid(p))
       /\ session[p].reveal_index = 2 /\ session[p].reading = "None"
       /\ get_deep_credits(TabUid(p)) = 0
       /\ ~can_use_free(TabUid(p))
       /\ granted[TabUid(p)] = 1 /\ consumed[TabUid(p)] = 1
       /\ incSum[TabUid(p)][today] = 1
       /\ \A q \in Procs \ {p} : call[q] = NoCall

C24_Moves(p) ==
    /\ call[p].op = "upgrade_to_deep"
    /\ pc[p] # "idle" /\ pc'[p] # pc[p]

\* C24: the upgrade starts only while the tab's reading is not deep and the
\* balance is positive, it takes one credit, and when its run ends after the
\* charge the session holds a deep reading (reading is not None and
\* reading_is_deep is True) for the same cards, so that the generate step
\* does not run again for this draw.
C24_UpgradeLeavesDeepReading ==
    [][\A p \in Tabs :
          /\ (pc[p] = "idle" /\ pc'[p] # "idle"
                /\ call'[p].op = "upgrade_to_deep") =>
                /\ session[p].reading # "None"
                /\ ~session[p].reading_is_deep
                /\ get_deep_credits(call'[p].uid) > 0
                /\ call'[p].n = 1
          /\ (C24_Moves(p) /\ call'[p].charged /\ ~call[p].charged) =>
                consumed' = [consumed EXCEPT ![call[p].uid] = @ + 1]
          /\ (C24_Moves(p) /\ call[p].charged) => consumed' = consumed
          /\ (C24_Moves(p) /\ pc'[p] = "idle" /\ call[p].charged
                /\ session[p].reading \in {"data", "raw"}) =>
                /\ session'[p].reading # "None"
                /\ session'[p].reading_is_deep
                /\ ~GenerateStepRuns(p)'
                /\ session'[p].drawn_cards = session[p].drawn_cards
                /\ session'[p].reveal_index = session[p].reveal_index]_vars

C25_Fails(p) ==
    /\ call[p].op = "generate_reading"
    /\ pc[p] # "idle" /\ pc'[p] = "idle"
    /\ call'[p].ret = "failed"

\* C25: when the model call or a ledger call raises in the generate step,
\* the step still completes: the session's reading is the raw error
\* reading, reading_is_deep is set to the path taken, stage becomes
\* "reading", and the generate step does not run again on the next rerun.
C25_FailedStepCompletes ==
    [][\A p \in Tabs :
          C25_Fails(p) =>
             /\ session'[p].reading = "error"
             /\ ~GenerateStepRuns(p)'
             /\ session'[p].reading_is_deep = call[p].want_deep
             /\ session'[p].stage = "reading"]_vars

C26_Inv(s) ==
    /\ s.reveal_index \in {-1, 0, 1, 2}
    /\ s.drawn_cards \in {0, 3}
    /\ s.reading # "None" => (s.drawn_cards = 3 /\ s.reveal_index = 2)

C26_ChangesCards(p) ==
    \/ session'[p].drawn_cards # session[p].drawn_cards
    \/ session'[p].reveal_index # session[p].reveal_index

====
